---- MODULE Spec2Model ----
(***************************************************************************)
(* The RAG extraction pipeline of processPitchDeck (latest revision,       *)
(* src/unnamed/part_001 lines 1-395): normalise, chunk, embed, retrieve,   *)
(* build the prompt, generate, parse, validate.  Texts are strings; a      *)
(* character is a string of length 1.                                      *)
(*                                                                         *)
(* Spec and RetrievalSpec run the handler of the latest revision.          *)
(* KeywordSpec, ChunkSpec, ParseSpec and CosineSpec apply one function of  *)
(* it (keywordRetrieve's score, chunkText, the response parser,            *)
(* cosineSimilarity on doubles) to a set of inputs.  EarlierSpec runs the  *)
(* handler of the earlier RAG revision (src/unnamed/part_001 lines         *)
(* 397-882) and CompiledSpec that of the compiled revision                 *)
(* (src/README.md lines 153-345).  ConcurrentSpec runs two invocations of  *)
(* the latest handler between each other's awaits; TerminationSpec counts  *)
(* the requests of an invocation and states that every call ends;          *)
(* ProbeSpec runs initializeVertexAI of src/functions/index.ts.            *)
(***************************************************************************)
EXTENDS Integers, Sequences, FiniteSets, TLC

(***************************************************************************)
(* Program constants.                                                      *)
(***************************************************************************)
MinTextLength == 100
chunkSize == 300
TopK == 5
retries == 3
ContextBudget == 4000

(***************************************************************************)
(* Bounds of the model.  EmbeddingDim stands for the vector dimension      *)
(* (768 in Array(768).fill(0)); MaxBlocks is the number of full windows of *)
(* the long document, so that it has more than TopK chunks.                *)
(***************************************************************************)
EmbeddingDim == 3
MaxBlocks == 5

(***************************************************************************)
(* Strings.                                                                *)
(***************************************************************************)
Min(a, b) == IF a <= b THEN a ELSE b
Max(a, b) == IF a >= b THEN a ELSE b

CharAt(s, i) == SubSeq(s, i, i)

\* The string parts[lo] \o ... \o parts[hi], built by halving the index range.
RECURSIVE Concat(_, _, _)
Concat(parts, lo, hi) ==
  IF lo > hi THEN ""
  ELSE IF lo = hi THEN parts[lo]
  ELSE LET m == (lo + hi) \div 2 IN Concat(parts, lo, m) \o Concat(parts, m + 1, hi)

Repeat(s, n) == Concat([i \in 1..n |-> s], 1, n)

IsSpace(c) == c \in {" ", "\n", "\t", "\r"}
IsDigit(c) == c \in {"0", "1", "2", "3", "4", "5", "6", "7", "8", "9"}

UpperLetters == "ABCDEFGHIJKLMNOPQRSTUVWXYZ"
LowerLetters == "abcdefghijklmnopqrstuvwxyz"
LowerOf ==
  [c \in {CharAt(UpperLetters, i) : i \in 1..Len(UpperLetters)} |->
     CharAt(LowerLetters, CHOOSE i \in 1..Len(UpperLetters) : CharAt(UpperLetters, i) = c)]
LowerChar(c) == IF c \in DOMAIN LowerOf THEN LowerOf[c] ELSE c

\* String.prototype.toLowerCase
toLowerCase(s) == Concat([i \in 1..Len(s) |-> LowerChar(CharAt(s, i))], 1, Len(s))

\* String.prototype.includes
includes(s, k) == \E i \in 1..(Len(s) - Len(k) + 1) : SubSeq(s, i, i + Len(k) - 1) = k

\* String.prototype.substring(from, to): 0-based, to exclusive, clamped.
substring(s, from, to) ==
  LET a == Max(0, Min(from, Len(s)))
      b == Max(0, Min(to, Len(s)))
  IN SubSeq(s, Min(a, b) + 1, Max(a, b))

\* String.prototype.trim
trim(s) ==
  IF \A i \in 1..Len(s) : IsSpace(CharAt(s, i)) THEN ""
  ELSE LET first == CHOOSE i \in 1..Len(s) :
                      /\ ~IsSpace(CharAt(s, i))
                      /\ \A j \in 1..(i - 1) : IsSpace(CharAt(s, j))
           last == CHOOSE i \in 1..Len(s) :
                     /\ ~IsSpace(CharAt(s, i))
                     /\ \A j \in (i + 1)..Len(s) : IsSpace(CharAt(s, j))
       IN SubSeq(s, first, last)

\* Decimal digits of a natural number (template-literal interpolation).
RECURSIVE NumToString(_)
NumToString(n) ==
  IF n < 10 THEN CharAt("0123456789", n + 1)
  ELSE NumToString(n \div 10) \o CharAt("0123456789", (n % 10) + 1)

(***************************************************************************)
(* Step 2: the three replaces and the trim that normalise the PDF text.    *)
(***************************************************************************)
\* .replace(/\s+/g, " ")
CollapseWhitespace(s) ==
  Concat([i \in 1..Len(s) |->
            IF IsSpace(CharAt(s, i))
            THEN (IF i > 1 /\ IsSpace(CharAt(s, i - 1)) THEN "" ELSE " ")
            ELSE CharAt(s, i)], 1, Len(s))

\* /Page \d+/i matches at position i.
PageAt(s, i) ==
  /\ i >= 1 /\ i + 5 <= Len(s)
  /\ IsDigit(CharAt(s, i + 5))
  /\ toLowerCase(SubSeq(s, i, i + 4)) = "page "

\* Position j lies inside a match of /Page \d+/gi: in its "Page " or in the
\* digits that follow it.
InPageNumber(s, j) ==
  \/ \E i \in Max(1, j - 4)..j : PageAt(s, i)
  \/ /\ IsDigit(CharAt(s, j))
     /\ \E d \in 6..j : (\A q \in d..j : IsDigit(CharAt(s, q))) /\ PageAt(s, d - 5)

\* .replace(/Page \d+/gi, "")
RemovePageNumbers(s) ==
  Concat([j \in 1..Len(s) |-> IF InPageNumber(s, j) THEN "" ELSE CharAt(s, j)], 1, Len(s))

\* Position j lies inside a match of /^\s*$\n/gm: a whitespace run from a line
\* start up to the last newline of that run.
InBlankLine(s, j) ==
  /\ IsSpace(CharAt(s, j))
  /\ \E p \in 1..j :
       /\ p = 1 \/ CharAt(s, p - 1) = "\n"
       /\ \A q \in p..j : IsSpace(CharAt(s, q))
  /\ \E e \in j..Len(s) :
       /\ CharAt(s, e) = "\n"
       /\ \A q \in j..e : IsSpace(CharAt(s, q))

\* .replace(/^\s*$\n/gm, "")
RemoveBlankLines(s) ==
  IF ~includes(s, "\n") THEN s
  ELSE Concat([j \in 1..Len(s) |-> IF InBlankLine(s, j) THEN "" ELSE CharAt(s, j)], 1, Len(s))

\* pdfData.text.replace(...).replace(...).replace(...).trim()
Normalize(raw) == trim(RemoveBlankLines(RemovePageNumbers(CollapseWhitespace(raw))))

(***************************************************************************)
(* Step 3: fixed-size windows, then the filter of blank windows.           *)
(***************************************************************************)
\* A variant of ChunkLoop whose windows overlap by one character.
RECURSIVE ChunkLoopOverlapping(_, _, _)
ChunkLoopOverlapping(text, i, chunks) ==
  IF i < Len(text)
  THEN ChunkLoopOverlapping(text, i + chunkSize - 1,
                            Append(chunks, substring(text, i, i + chunkSize)))
  ELSE chunks

\* for (let i = 0; i < text.length; i += chunkSize) chunks.push(text.substring(i, i + chunkSize))
RECURSIVE ChunkLoop(_, _, _)
ChunkLoop(text, i, chunks) ==
  IF i < Len(text)
  THEN ChunkLoop(text, i + chunkSize, Append(chunks, substring(text, i, i + chunkSize)))
  ELSE chunks

\* A variant of MakeChunks that keeps the full windows only.
MakeFullChunks(text) ==
  [j \in 1..(Len(text) \div chunkSize) |-> substring(text, (j - 1) * chunkSize, j * chunkSize)]

MakeChunks(text) == ChunkLoop(text, 0, <<>>)

\* A variant of IsValidChunk that wants a full window of text.
IsFullChunk(chunk) == Len(trim(chunk)) >= chunkSize

\* chunks.filter(chunk => chunk && chunk.trim().length > 0)
IsValidChunk(chunk) == chunk # "" /\ Len(trim(chunk)) > 0
FilterValid(chunks) == SelectSeq(chunks, IsValidChunk)

(***************************************************************************)
(* The documents the text extractor hands over (pdfData.text).             *)
(***************************************************************************)
Pad(s, n) == s \o Repeat("z", n - Len(s))

\* The leading words of the i-th full window of the long document.
BlockWords(i) ==
  CASE i % 5 = 1 -> "Acme Robotics pitch deck overview "
    [] i % 5 = 2 -> "Our Company builds warehouse robots "
    [] i % 5 = 3 -> "The MARKET is large and the Team has shipped before "
    [] i % 5 = 4 -> "Appendix with legal notes "
    [] OTHER     -> "Revenue doubled; GROWTH of 20 percent "

RawLong ==
  Concat([i \in 1..MaxBlocks |-> Pad(BlockWords(i), chunkSize)], 1, MaxBlocks)
    \o " traction: 40 paying customers in a growing market."

RawShort == "  Acme   Robotics \n\n Page 2 \n\t seed deck  "

RawOne ==
  "  Acme Robotics\n\nPage 1\n\nOur company sells robots to logistics customers.   "
    \o "The TEAM has shipped before.\npage 12\nFunding ask: 2M seed round for growth. \n"

\* A document whose second window is blank after the page numbers are removed.
RawGap ==
  Pad("Acme Robotics company overview and business strategy ", chunkSize)
    \o Repeat("Page 7 ", chunkSize)
    \o "competitive landscape and funding."

Documents == {RawShort, RawOne, RawGap, RawLong}

(***************************************************************************)
(* JavaScript values: the parsed model response and the record fields.     *)
(***************************************************************************)
Undefined == [t |-> "undefined"]
Null == [t |-> "null"]
Bool(b) == [t |-> "bool", b |-> b]
Num(n) == [t |-> "num", n |-> n]
Str(s) == [t |-> "str", s |-> s]
Arr(a) == [t |-> "arr", a |-> a]
\* An object is the sequence of its [k, v] members in insertion order.
Obj(m) == [t |-> "obj", m |-> m]

\* ToBoolean, as applied by `x || fallback`.
Truthy(v) ==
  CASE v.t = "undefined" -> FALSE
    [] v.t = "null" -> FALSE
    [] v.t = "bool" -> v.b
    [] v.t = "num" -> v.n # 0
    [] v.t = "str" -> v.s # ""
    [] OTHER -> TRUE

\* Reading a property of null or undefined throws a TypeError.
CanRead(v) == v.t \notin {"null", "undefined"}

\* v[key] for one of the record's field names; a later duplicate member wins.
GetProp(v, key) ==
  IF v.t = "obj" /\ \E i \in 1..Len(v.m) : v.m[i].k = key
  THEN v.m[CHOOSE i \in 1..Len(v.m) :
             v.m[i].k = key /\ \A j \in (i + 1)..Len(v.m) : v.m[j].k # key].v
  ELSE Undefined

\* obj[key] = value
SetProp(v, key, value) == Obj(Append(v.m, [k |-> key, v |-> value]))

(***************************************************************************)
(* JSON.parse, for texts without escape sequences, fractions or exponents. *)
(* A parse step yields [ok, v, next]: the value and the index after it.    *)
(***************************************************************************)
ParseFail == [ok |-> FALSE, v |-> Undefined, next |-> 0]
Parsed(v, next) == [ok |-> TRUE, v |-> v, next |-> next]

\* The first index >= i that is past the text or not JSON whitespace.
SkipWs(s, i) ==
  CHOOSE j \in i..(Len(s) + 1) :
    /\ j = Len(s) + 1 \/ ~IsSpace(CharAt(s, j))
    /\ \A q \in i..(j - 1) : IsSpace(CharAt(s, q))

StartsWithAt(s, i, w) == i + Len(w) - 1 <= Len(s) /\ SubSeq(s, i, i + Len(w) - 1) = w

\* A string token opening at i: its characters run to the next quote and hold
\* no control character.
ParseString(s, i) ==
  IF ~\E j \in (i + 1)..Len(s) : CharAt(s, j) = "\""
  THEN ParseFail
  ELSE LET close == CHOOSE j \in (i + 1)..Len(s) :
                      /\ CharAt(s, j) = "\""
                      /\ \A q \in (i + 1)..(j - 1) : CharAt(s, q) # "\""
           body == SubSeq(s, i + 1, close - 1)
       IN IF \E q \in 1..Len(body) : CharAt(body, q) \in {"\n", "\t", "\r"}
          THEN ParseFail
          ELSE Parsed(Str(body), close + 1)

RECURSIVE DigitsValue(_, _)
DigitsValue(d, n) ==
  IF n = 0 THEN 0
  ELSE 10 * DigitsValue(d, n - 1)
         + (CHOOSE k \in 0..9 : CharAt("0123456789", k + 1) = CharAt(d, n))

\* An integer token at i: -? (0 | [1-9][0-9]*)
ParseNumber(s, i) ==
  LET neg == CharAt(s, i) = "-"
      from == IF neg THEN i + 1 ELSE i
      to == CHOOSE j \in (from - 1)..Len(s) :
              /\ \A q \in from..j : IsDigit(CharAt(s, q))
              /\ j = Len(s) \/ ~IsDigit(CharAt(s, j + 1))
      digits == SubSeq(s, from, to)
  IN IF digits = "" \/ (Len(digits) > 1 /\ CharAt(digits, 1) = "0")
     THEN ParseFail
     ELSE Parsed(Num((IF neg THEN -1 ELSE 1) * DigitsValue(digits, Len(digits))), to + 1)

RECURSIVE ParseValue(_, _), ParseMembers(_, _, _), ParseElements(_, _, _)

\* A JSON value at i (leading whitespace already skipped).
ParseValue(s, i) ==
  IF i > Len(s) THEN ParseFail
  ELSE LET c == CharAt(s, i)
       IN CASE c = "{" ->
                 LET j == SkipWs(s, i + 1)
                 IN IF j <= Len(s) /\ CharAt(s, j) = "}"
                    THEN Parsed(Obj(<<>>), j + 1)
                    ELSE ParseMembers(s, j, <<>>)
            [] c = "[" ->
                 LET j == SkipWs(s, i + 1)
                 IN IF j <= Len(s) /\ CharAt(s, j) = "]"
                    THEN Parsed(Arr(<<>>), j + 1)
                    ELSE ParseElements(s, j, <<>>)
            [] c = "\"" -> ParseString(s, i)
            [] c = "-" \/ IsDigit(c) -> ParseNumber(s, i)
            [] StartsWithAt(s, i, "true") -> Parsed(Bool(TRUE), i + 4)
            [] StartsWithAt(s, i, "false") -> Parsed(Bool(FALSE), i + 5)
            [] StartsWithAt(s, i, "null") -> Parsed(Null, i + 4)
            [] OTHER -> ParseFail

\* The members of an object from i on: "key" : value, then "," or "}".
ParseMembers(s, i, acc) ==
  IF i > Len(s) \/ CharAt(s, i) # "\"" THEN ParseFail
  ELSE LET key == ParseString(s, i)
       IN IF ~key.ok THEN ParseFail
          ELSE LET colon == SkipWs(s, key.next)
               IN IF colon > Len(s) \/ CharAt(s, colon) # ":" THEN ParseFail
                  ELSE LET val == ParseValue(s, SkipWs(s, colon + 1))
                       IN IF ~val.ok THEN ParseFail
                          ELSE LET after == SkipWs(s, val.next)
                                   members == Append(acc, [k |-> key.v.s, v |-> val.v])
                               IN IF after > Len(s) THEN ParseFail
                                  ELSE IF CharAt(s, after) = "}"
                                  THEN Parsed(Obj(members), after + 1)
                                  ELSE IF CharAt(s, after) = ","
                                  THEN ParseMembers(s, SkipWs(s, after + 1), members)
                                  ELSE ParseFail

\* The elements of an array from i on: value, then "," or "]".
ParseElements(s, i, acc) ==
  LET val == ParseValue(s, i)
  IN IF ~val.ok THEN ParseFail
     ELSE LET after == SkipWs(s, val.next)
              elements == Append(acc, val.v)
          IN IF after > Len(s) THEN ParseFail
             ELSE IF CharAt(s, after) = "]"
             THEN Parsed(Arr(elements), after + 1)
             ELSE IF CharAt(s, after) = ","
             THEN ParseElements(s, SkipWs(s, after + 1), elements)
             ELSE ParseFail

\* JSON.parse(text): [ok, v]; ok = FALSE stands for the SyntaxError it throws.
JSONParse(text) ==
  LET r == ParseValue(text, SkipWs(text, 1))
  IN IF r.ok /\ SkipWs(text, r.next) = Len(text) + 1
     THEN [ok |-> TRUE, v |-> r.v]
     ELSE [ok |-> FALSE, v |-> Undefined]

\* A variant of MatchBraces that stops at the first "}" after the first "{".
MatchFirstObject(text) ==
  IF \E a \in 1..Len(text) : CharAt(text, a) = "{"
                               /\ \E b \in (a + 1)..Len(text) : CharAt(text, b) = "}"
  THEN LET a == CHOOSE i \in 1..Len(text) :
                  CharAt(text, i) = "{" /\ \A q \in 1..(i - 1) : CharAt(text, q) # "{"
           b == CHOOSE i \in (a + 1)..Len(text) :
                  CharAt(text, i) = "}" /\ \A q \in (a + 1)..(i - 1) : CharAt(text, q) # "}"
       IN [found |-> TRUE, text |-> SubSeq(text, a, b)]
  ELSE [found |-> FALSE, text |-> ""]

\* text.match(/\{[\s\S]*\}/): the span from the first "{" to the last "}",
\* [found, text].
MatchBraces(text) ==
  IF \E a \in 1..Len(text) : CharAt(text, a) = "{"
                               /\ \E b \in (a + 1)..Len(text) : CharAt(text, b) = "}"
  THEN LET a == CHOOSE i \in 1..Len(text) :
                  CharAt(text, i) = "{" /\ \A q \in 1..(i - 1) : CharAt(text, q) # "{"
           b == CHOOSE i \in 1..Len(text) :
                  CharAt(text, i) = "}" /\ \A q \in (i + 1)..Len(text) : CharAt(text, q) # "}"
       IN [found |-> TRUE, text |-> SubSeq(text, a, b)]
  ELSE [found |-> FALSE, text |-> ""]

(***************************************************************************)
(* Embedding vectors and cosine similarity.  A similarity is the exact     *)
(* quotient [num, den] with den > 0; the vectors of the model have norms   *)
(* whose square roots are integers.                                        *)
(***************************************************************************)
\* Array(768).fill(0)
ZeroVector == [i \in 1..EmbeddingDim |-> 0]

Vector(a, b) == [i \in 1..EmbeddingDim |-> IF i = 1 THEN a ELSE IF i = 2 THEN b ELSE 0]

\* The vectors the embedding capability returns.
CapabilityVectors == {Vector(3, 4), Vector(-8, -6)}

\* A null entry of chunkEmbeddings (validChunks.map(() => null)); the
\* capability returns no empty array.
NullEmbedding == <<>>

Quotient(num, den) == [num |-> num, den |-> den]

\* Math.sqrt of a perfect square.
Sqrt(n) == CHOOSE r \in 0..n : r * r = n

\* for (let i = 0; i < a.length; i++) { dot += ...; normA += ...; normB += ... }
RECURSIVE CosineLoop(_, _, _, _)
CosineLoop(a, b, i, acc) ==
  IF i <= Len(a)
  THEN CosineLoop(a, b, i + 1, [dot |-> acc.dot + a[i] * b[i],
                                normA |-> acc.normA + a[i] * a[i],
                                normB |-> acc.normB + b[i] * b[i]])
  ELSE acc

cosineSimilarity(a, b) ==
  LET sums == CosineLoop(a, b, 1, [dot |-> 0, normA |-> 0, normB |-> 0])
      denominator == Sqrt(sums.normA) * Sqrt(sums.normB)
  IN IF denominator = 0 THEN Quotient(0, 1) ELSE Quotient(sums.dot, denominator)

\* The sign of x - y for two quotients.
Compare(x, y) ==
  LET d == x.num * y.den - y.num * x.den
  IN IF d > 0 THEN 1 ELSE IF d < 0 THEN -1 ELSE 0

(***************************************************************************)
(* Array.prototype.sort((a, b) => b.score - a.score): a stable sort, so an *)
(* entry goes behind every entry already placed whose score is not lower.  *)
(***************************************************************************)
\* The comparator: negative when a sorts before b.
DescendingOrder(a, b) == Compare(b.score, a.score)

\* A variant of InsertSorted that is not stable: the entry goes in front of the
\* entries of equal score.
InsertBeforeTies(sorted, x) ==
  LET keep == Cardinality({i \in 1..Len(sorted) : DescendingOrder(sorted[i], x) < 0})
  IN SubSeq(sorted, 1, keep) \o <<x>> \o SubSeq(sorted, keep + 1, Len(sorted))

InsertSorted(sorted, x) ==
  LET keep == Cardinality({i \in 1..Len(sorted) : DescendingOrder(sorted[i], x) <= 0})
  IN SubSeq(sorted, 1, keep) \o <<x>> \o SubSeq(sorted, keep + 1, Len(sorted))

RECURSIVE SortLoop(_, _, _)
SortLoop(items, i, sorted) ==
  IF i <= Len(items) THEN SortLoop(items, i + 1, InsertSorted(sorted, items[i])) ELSE sorted

SortByScore(items) == SortLoop(items, 1, <<>>)

\* A variant of TopChunksOf that ignores the ranking: the first chunks of the
\* document.
FirstChunks(ranking, chunkList) ==
  [j \in 1..Min(TopK, Len(chunkList)) |-> chunkList[j]]

\* A variant of TopChunksOf without the slice: every ranked chunk.
AllRanked(ranking, chunkList) ==
  [j \in 1..Len(ranking) |-> chunkList[ranking[j].index]]

\* ranking.slice(0, 5).map(s => validChunks[s.index])
TopChunksOf(ranking, chunkList) ==
  [j \in 1..Min(TopK, Len(ranking)) |-> chunkList[ranking[j].index]]

(***************************************************************************)
(* Step 5: the two retrieval modes.                                        *)
(***************************************************************************)
keywords ==
  <<"company", "market", "traction", "team", "funding", "revenue", "customers",
    "growth", "business", "strategy", "competitive">>

\* A variant of KeywordLoop that compares without lower-casing the chunk.
RECURSIVE CaseSensitiveLoop(_, _, _)
CaseSensitiveLoop(chunk, k, score) ==
  IF k <= Len(keywords)
  THEN CaseSensitiveLoop(chunk, k + 1, IF includes(chunk, keywords[k]) THEN score + 1 ELSE score)
  ELSE score

\* keywords.forEach(keyword => { if (chunk.toLowerCase().includes(keyword)) score += 1 })
RECURSIVE KeywordLoop(_, _, _)
KeywordLoop(chunk, k, score) ==
  IF k <= Len(keywords)
  THEN KeywordLoop(chunk, k + 1,
                   IF includes(toLowerCase(chunk), keywords[k]) THEN score + 1 ELSE score)
  ELSE score

KeywordScore(chunk) == KeywordLoop(chunk, 1, 0)

\* validChunks.map((chunk, idx) => ({ index: idx, score }))
KeywordRanking(chunkList) ==
  SortByScore([idx \in 1..Len(chunkList) |->
                 [index |-> idx, score |-> Quotient(KeywordScore(chunkList[idx]), 1)]])

\* chunkEmbeddings.map((emb, idx) => ({ index: idx,
\*     similarity: emb ? cosineSimilarity(queryEmbedding[0], emb) : 0 }))
VectorRanking(embeddingList, query) ==
  SortByScore([idx \in 1..Len(embeddingList) |->
                 [index |-> idx,
                  score |-> IF embeddingList[idx] # NullEmbedding
                            THEN cosineSimilarity(query, embeddingList[idx])
                            ELSE Quotient(0, 1)]])

\* A variant of AnyRealEmbedding that looks at the first embedding only.
FirstRealEmbedding(embeddingList) ==
  /\ Len(embeddingList) > 0
  /\ \E j \in 1..Len(embeddingList[1]) : embeddingList[1][j] # 0

\* chunkEmbeddings.some(e => e.some(v => v !== 0))
AnyRealEmbedding(embeddingList) ==
  \E i \in 1..Len(embeddingList) :
    \E j \in 1..Len(embeddingList[i]) : embeddingList[i][j] # 0

extractionQuery ==
  "Extract key startup pitch deck information including company, value proposition, "
    \o "market size, traction, team, funding ask, use of funds, business model, "
    \o "competitive landscape, go-to-market strategy"

(***************************************************************************)
(* Step 6: the prompt.  Its fixed text is kept by its length only.         *)
(***************************************************************************)
Separator == "\n\n---\n\n"
PromptTemplateLength == 1141

\* topChunks.join("\n\n---\n\n")
RECURSIVE JoinFrom(_, _)
JoinFrom(list, i) ==
  IF i > Len(list) THEN ""
  ELSE IF i = Len(list) THEN list[i]
  ELSE list[i] \o Separator \o JoinFrom(list, i + 1)

\* A variant of Join with a blank line for the separator.
JoinWithBlankLine(list) ==
  Concat([i \in 1..(2 * Len(list) - 1) |->
            IF i % 2 = 1 THEN list[(i + 1) \div 2] ELSE "\n\n"], 1, 2 * Len(list) - 1)

Join(list) == JoinFrom(list, 1)

BuildPrompt(top) ==
  LET context == substring(Join(top), 0, ContextBudget)
  IN [sections |-> Len(top),
      context |-> context,
      length |-> PromptTemplateLength + Len(NumToString(Len(top))) + Len(context)]

NoPrompt == [sections |-> 0, context |-> "", length |-> 0]

(***************************************************************************)
(* Steps 7 and 8: the defaults, the parse of the response, the validated   *)
(* record and the result.                                                  *)
(***************************************************************************)
Sentinel == "Not specified in document"
SetupRequired == "Document Analysis (AI Setup Required)"
DocumentContains(n) == "Document contains " \o NumToString(n) \o " characters"
ProcessedWith(n) == "Processed with " \o NumToString(n) \o " chunks"

Fields ==
  <<"company", "valueProposition", "marketSize", "traction", "team", "fundingAsk",
    "useOfFunds", "businessModel", "competitiveLandscape", "goToMarket">>

\* A variant of DefaultAiData with the sentinel in every field.
SentinelAiData(textLength, chunkCount) ==
  Obj([i \in 1..Len(Fields) |-> [k |-> Fields[i], v |-> Str(Sentinel)]])

\* let aiData = { company: "Document Analysis (AI Setup Required)", ... }
DefaultAiData(textLength, chunkCount) ==
  Obj(<<[k |-> "company", v |-> Str(SetupRequired)],
        [k |-> "valueProposition", v |-> Str(DocumentContains(textLength))],
        [k |-> "marketSize", v |-> Str(Sentinel)],
        [k |-> "traction", v |-> Str(ProcessedWith(chunkCount))],
        [k |-> "team", v |-> Str(Sentinel)],
        [k |-> "fundingAsk", v |-> Str(Sentinel)],
        [k |-> "useOfFunds", v |-> Str(Sentinel)],
        [k |-> "businessModel", v |-> Str(Sentinel)],
        [k |-> "competitiveLandscape", v |-> Str(Sentinel)],
        [k |-> "goToMarket", v |-> Str(Sentinel)]>>)

\* A variant of FieldDefault with the same fallback for every field.
SentinelDefault(field, textLength) == Str(Sentinel)

\* The fallback of `aiData.field || fallback` in validatedData.
FieldDefault(field, textLength) ==
  CASE field = "company" -> Str(SetupRequired)
    [] field = "valueProposition" -> Str(DocumentContains(textLength))
    [] OTHER -> Str(Sentinel)

\* aiData.field || fallback
OrElse(v, fallback) == IF Truthy(v) THEN v ELSE fallback

\* The ten record fields of validatedData, for an aiData whose properties can
\* be read.
ValidateRecord(aiData, textLength) ==
  [f \in {Fields[i] : i \in 1..Len(Fields)} |->
     OrElse(GetProp(aiData, f), FieldDefault(f, textLength))]

\* error.message.includes(...) ? ... : error.message
ClassifyError(message) ==
  IF includes(message, "permission") THEN "Vertex AI permissions required - check IAM roles"
  ELSE IF includes(message, "API not enabled")
  THEN "Vertex AI API needs to be enabled in Google Cloud Console"
  ELSE IF includes(message, "quota") THEN "Vertex AI quota exceeded - check billing"
  ELSE IF includes(message, "model")
  THEN "Model access required - enable Gemini in Vertex AI Studio"
  ELSE message

nextSteps ==
  <<"Enable Vertex AI API in Google Cloud Console",
    "Add 'Vertex AI User' role to service account in IAM",
    "Visit Vertex AI Studio to request Gemini model access",
    "Retry analysis to enable AI features">>

NoOutcome == [kind |-> "none"]
Thrown(message) == [kind |-> "thrown", message |-> "Document processing failed: " \o message]
Returned(result) == [kind |-> "returned", result |-> result]

\* A variant of ConfidenceOf that looks at the retrieval first.
ConfidenceByRetrieval(aiEnabled, retrievalSuccess) ==
  IF retrievalSuccess THEN (IF aiEnabled THEN "high" ELSE "medium") ELSE "low"

\* A variant of ConfidenceOf that looks at the generation only.
ConfidenceByGeneration(aiEnabled, retrievalSuccess) == IF aiEnabled THEN "high" ELSE "low"

\* confidence: aiEnabled ? (retrievalSuccess ? "high" : "medium") : "low"
ConfidenceOf(aiEnabled, retrievalSuccess) ==
  IF aiEnabled THEN (IF retrievalSuccess THEN "high" ELSE "medium") ELSE "low"

\* The object returned at the end of the handler.
BuildResult(r) ==
  LET aiError == GetProp(r.aiData, "aiError")
  IN [success |-> TRUE,
      data |-> ValidateRecord(r.aiData, Len(r.extractedText))
                 @@ [aiStatus |-> IF r.aiEnabled THEN "RAG AI analysis complete"
                                  ELSE IF Truthy(aiError) THEN aiError.s
                                  ELSE "AI setup required",
                     ragUsed |-> r.retrievalSuccess,
                     chunkCount |-> Len(r.validChunks),
                     retrievedChunks |-> Len(r.topChunks)],
      source |-> IF r.aiEnabled
                 THEN (IF r.retrievalSuccess THEN "vertex-ai-gemini-1.5-flash with RAG"
                       ELSE "vertex-ai-gemini-1.5-flash with keyword fallback")
                 ELSE "pdf-fallback",
      textLength |-> Len(r.extractedText),
      chunkCount |-> Len(r.validChunks),
      retrievedChunks |-> Len(r.topChunks),
      ragUsed |-> r.retrievalSuccess,
      sampleText |-> substring(r.extractedText, 0, 300),
      aiEnabled |-> r.aiEnabled,
      aiTokens |-> IF r.aiEnabled THEN r.extractionPrompt.length + Len(r.aiResponse) ELSE 0,
      confidence |-> ConfidenceOf(r.aiEnabled, r.retrievalSuccess),
      status |-> IF r.aiEnabled THEN "AI-powered RAG pitch deck analysis complete!"
                 ELSE "PDF processed, AI setup required",
      nextSteps |-> IF r.aiEnabled THEN <<>> ELSE nextSteps]

\* Step 8.  Reading a field of a null aiData throws a TypeError, which the
\* outer catch rethrows.
Finish(r) ==
  IF CanRead(r.aiData)
  THEN [r EXCEPT !.pc = "done", !.attempt = 0, !.outcome = Returned(BuildResult(r))]
  ELSE [r EXCEPT !.pc = "failed", !.attempt = 0,
                 !.outcome = Thrown("Cannot read properties of null (reading 'company')")]

\* catch (error) { aiData.aiError = ... } of the AI analysis.
AfterGenerationError(r, message) ==
  Finish([r EXCEPT !.aiData = SetProp(r.aiData, "aiError", Str(ClassifyError(message)))])

SyntaxErrorMessage == "Unexpected token in JSON"

\* try { aiData = JSON.parse(aiResponse) } catch { ... regex extraction ... }
ParseResponse(r, text) ==
  LET direct == JSONParse(text)
      span == MatchBraces(text)
      inner == JSONParse(span.text)
  IN IF direct.ok
     THEN Finish([r EXCEPT !.aiData = direct.v, !.aiEnabled = TRUE])
     ELSE IF span.found
     THEN (IF inner.ok
           THEN Finish([r EXCEPT !.aiData = inner.v, !.aiEnabled = TRUE])
           ELSE AfterGenerationError(r, SyntaxErrorMessage))
     ELSE AfterGenerationError(r, "Invalid AI response format: " \o substring(text, 0, 300))

\* The checks on the response of model.generateContent, then the parse.
HandleResponse(r, response) ==
  CASE response.kind = "noCandidates" ->
         AfterGenerationError(r, "No candidates returned from AI")
    [] response.kind = "noParts" ->
         AfterGenerationError(r, "No content parts returned from AI")
    [] response.text = "" ->
         AfterGenerationError(r, "No text content returned from AI")
    [] OTHER -> ParseResponse([r EXCEPT !.aiResponse = response.text], response.text)

\* Steps 6 and 7 up to the generation call, or to the end without a client.
StartGeneration(r, client) ==
  LET q == [r EXCEPT !.extractionPrompt = BuildPrompt(r.topChunks),
                     !.aiData = DefaultAiData(Len(r.extractedText), Len(r.validChunks)),
                     !.aiEnabled = FALSE,
                     !.aiResponse = ""]
  IN IF client # "null"
     THEN [q EXCEPT !.pc = "generate", !.attempt = 1]
     ELSE Finish([q EXCEPT !.aiData = SetProp(q.aiData, "aiError",
                                              Str("Vertex AI not configured"))])

\* The keyword branch of step 5.
KeywordRetrieve(r, client) ==
  LET ranking == KeywordRanking(r.validChunks)
  IN StartGeneration([r EXCEPT !.ranking = ranking,
                               !.topChunks = TopChunksOf(ranking, r.validChunks)], client)

\* A variant of VectorRetrieve that scores by keywords when the query
\* embedding is the zero vector.
VectorOrKeywordRetrieve(r, queryEmbedding, client) ==
  LET ranking == IF queryEmbedding[1] = ZeroVector THEN KeywordRanking(r.validChunks)
                 ELSE VectorRanking(r.chunkEmbeddings, queryEmbedding[1])
  IN StartGeneration([r EXCEPT !.queryEmbedding = queryEmbedding,
                               !.embeddings = <<>>,
                               !.ranking = ranking,
                               !.topChunks = TopChunksOf(ranking, r.validChunks)], client)

\* The vector branch of step 5, once the query embedding is back.
VectorRetrieve(r, queryEmbedding, client) ==
  LET ranking == VectorRanking(r.chunkEmbeddings, queryEmbedding[1])
  IN StartGeneration([r EXCEPT !.queryEmbedding = queryEmbedding,
                               !.embeddings = <<>>,
                               !.ranking = ranking,
                               !.topChunks = TopChunksOf(ranking, r.validChunks)], client)

(***************************************************************************)
(* generateEmbeddings(texts): one call per text, a zero vector for a blank *)
(* text, for a missing vector and for a call that fails.                   *)
(***************************************************************************)
\* if (!text || text.trim().length === 0) { embeddings.push(zero); continue }
RECURSIVE SkipBlank(_, _)
SkipBlank(texts, embeddings) ==
  IF Len(embeddings) < Len(texts) /\ trim(texts[Len(embeddings) + 1]) = ""
  THEN SkipBlank(texts, Append(embeddings, ZeroVector))
  ELSE embeddings

\* generateEmbeddings([extractionQuery]) of the vector branch.  Without a
\* client it throws past the retrieval into the outer catch.
EnterQueryEmbeddings(r, client) ==
  IF client = "null"
  THEN [r EXCEPT !.pc = "failed", !.attempt = 0,
                 !.outcome = Thrown("Vertex AI client not available")]
  ELSE LET start == SkipBlank(<<extractionQuery>>, <<>>)
       IN IF Len(start) = 1
          THEN VectorRetrieve(r, start, client)
          ELSE [r EXCEPT !.pc = "embedQuery", !.embeddings = start, !.attempt = 1]

\* chunkEmbeddings is set: the retrievalSuccess flag and the branch of step 5.
AfterChunkEmbeddings(r, chunkEmbeddings, flag, client) ==
  LET q == [r EXCEPT !.chunkEmbeddings = chunkEmbeddings,
                     !.embeddings = <<>>,
                     !.retrievalSuccess = flag]
  IN IF flag /\ Len(chunkEmbeddings) > 0 /\ chunkEmbeddings[1] # NullEmbedding
     THEN EnterQueryEmbeddings(q, client)
     ELSE KeywordRetrieve(q, client)

\* Step 4: generateEmbeddings(validChunks) inside its try, or no client.
EnterChunkEmbeddings(r, client) ==
  IF client = "null"
  THEN AfterChunkEmbeddings(r, <<>>, FALSE, client)
  ELSE LET start == SkipBlank(r.validChunks, <<>>)
       IN IF Len(start) = Len(r.validChunks)
          THEN AfterChunkEmbeddings(r, start, AnyRealEmbedding(start), client)
          ELSE [r EXCEPT !.pc = "embedChunks", !.embeddings = start, !.attempt = 1]

\* A variant of PushEmbedding that returns to the caller with the first
\* embedding, whatever texts are left.
PushAndReturn(r, vector, client) ==
  LET pushed == Append(r.embeddings, vector)
  IN IF r.pc = "embedChunks"
     THEN AfterChunkEmbeddings(r, pushed, AnyRealEmbedding(pushed), client)
     ELSE VectorRetrieve(r, pushed, client)

\* embeddings.push(vector), then the next text or the return to the caller.
PushEmbedding(r, vector, client) ==
  LET texts == IF r.pc = "embedChunks" THEN r.validChunks ELSE <<extractionQuery>>
      pushed == SkipBlank(texts, Append(r.embeddings, vector))
  IN IF Len(pushed) < Len(texts)
     THEN [r EXCEPT !.embeddings = pushed, !.attempt = 1]
     ELSE IF r.pc = "embedChunks"
     THEN AfterChunkEmbeddings(r, pushed, AnyRealEmbedding(pushed), client)
     ELSE VectorRetrieve(r, pushed, client)

\* Variants of EmbeddingOf: one without the `|| Array(768).fill(0)` fallback,
\* one that drops the returned vector.
MissingVectorKept(response) ==
  IF response.kind = "noValues" THEN NullEmbedding
  ELSE IF response.kind = "vector" THEN response.vector ELSE ZeroVector

VectorDropped(response) == ZeroVector

\* What a resolved embedding call contributes: its vector, or the zero
\* vector when the vector is missing (embedding || Array(768).fill(0)) or the
\* response has no candidates (TypeError caught per text).
EmbeddingOf(response) ==
  IF response.kind = "vector" THEN response.vector ELSE ZeroVector

EmbeddingResponses ==
  {[kind |-> "vector", vector |-> v] : v \in CapabilityVectors}
    \cup {[kind |-> "noValues", vector |-> ZeroVector],
          [kind |-> "malformed", vector |-> ZeroVector]}

\* A variant of MayRetry with one retry more.
OneMoreRetry(attempt) == attempt <= retries + 1

\* async-retry, { retries: 3 }: a failed attempt is retried while retries
\* are left.
MayRetry(attempt) == attempt <= retries

(***************************************************************************)
(* Steps 2 and 3 for the extracted text.                                   *)
(***************************************************************************)
ProcessText(r, raw, client) ==
  LET text == Normalize(raw)
      chunks == MakeChunks(text)
      validChunks == FilterValid(chunks)
      q == [r EXCEPT !.extractedText = text, !.chunks = chunks, !.validChunks = validChunks]
  IN IF Len(text) < MinTextLength
     THEN [r EXCEPT !.pc = "failed", !.extractedText = text,
                    !.outcome = Thrown("Document too short for analysis ("
                                         \o NumToString(Len(text)) \o " chars)")]
     ELSE IF Len(validChunks) = 0
     THEN [q EXCEPT !.pc = "failed",
                    !.outcome = Thrown("No valid text chunks for embedding")]
     ELSE EnterChunkEmbeddings(q, client)

\* loadVertexAI(): [client, loaded] afterwards; sdk tells whether the SDK
\* can be required.
loadVertexAI(client, loaded, sdk) ==
  IF loaded THEN [client |-> client, loaded |-> loaded]
  ELSE IF sdk THEN [client |-> "client", loaded |-> TRUE]
  ELSE [client |-> "null", loaded |-> loaded]

(***************************************************************************)
(* The responses of the generation capability.                             *)
(***************************************************************************)
FullResponse ==
  "{\"company\":\"Acme Robotics\",\"valueProposition\":\"Robots for warehouses\","
    \o "\"marketSize\":\"5B TAM\",\"traction\":\"40 customers\",\"team\":\"Ada, Bob\","
    \o "\"fundingAsk\":\"2M seed\",\"useOfFunds\":\"Hiring\",\"businessModel\":\"SaaS\","
    \o "\"competitiveLandscape\":\"Few rivals\",\"goToMarket\":\"Direct sales\"}"

MixedResponse ==
  "{ \"company\": \"Acme\", \"team\": 0, \"traction\": null, \"fundingAsk\": false,\n"
    \o " \"marketSize\": \"\", \"useOfFunds\": 7, \"businessModel\": [\"SaaS\"],\n"
    \o " \"goToMarket\": {\"channel\": \"direct\"}, \"valueProposition\": true,\n"
    \o " \"competitiveLandscape\": \"Not specified in document\" }"

ResponseTexts ==
  {FullResponse,
   MixedResponse,
   "Here is the result: {\"company\":\"Acme\",\"team\":\"Ada\"} Thanks!",
   "{}",
   "null",
   "[\"Acme\"]",
   "\"Acme\"",
   "42",
   "true",
   "I cannot read this document.",
   "The model cannot read this document.",
   "Result: {company: Acme}",
   ""}

GenerationResponses ==
  {[kind |-> "text", text |-> t] : t \in ResponseTexts}
    \cup {[kind |-> "noCandidates", text |-> ""], [kind |-> "noParts", text |-> ""]}

\* The messages of a failing capability call.
CapabilityErrors ==
  {"7 PERMISSION_DENIED: permission denied on resource",
   "8 RESOURCE_EXHAUSTED: quota exceeded",
   "Publisher model gemini-1.5-flash was not found",
   "14 UNAVAILABLE: deadline exceeded"}

(***************************************************************************)
(* State: the module-level client and one invocation of processPitchDeck.  *)
(***************************************************************************)
VARIABLES
  vertexAIClient,    \* "null" or "client"
  vertexLoaded,
  pc,                \* where the invocation is suspended
  extractedText,
  chunks,
  validChunks,
  embeddings,        \* the array generateEmbeddings is filling
  chunkEmbeddings,
  retrievalSuccess,
  queryEmbedding,
  ranking,           \* similarities or chunkScores, sorted
  topChunks,
  extractionPrompt,
  aiData,
  aiEnabled,
  aiResponse,
  attempt,           \* attempts made of the capability call in flight
  lastCall,          \* how the last embedding call ended
  outcome,           \* what the handler returned or threw
  loadedClient,      \* the client as this invocation's loadVertexAI left it
  suspended,         \* a second invocation, waiting at one of its awaits
  calls,             \* the capability requests this invocation has sent
  generativeModel,   \* index.ts: the cached model, "null" when there is none
  initializer        \* index.ts: the call of initializeVertexAI under way

vars ==
  <<vertexAIClient, vertexLoaded, pc, extractedText, chunks, validChunks, embeddings,
    chunkEmbeddings, retrievalSuccess, queryEmbedding, ranking, topChunks,
    extractionPrompt, aiData, aiEnabled, aiResponse, attempt, lastCall, outcome,
    loadedClient, suspended, calls, generativeModel, initializer>>

\* The locals of the invocation as one record.
Run ==
  [pc |-> pc, extractedText |-> extractedText, chunks |-> chunks,
   validChunks |-> validChunks, embeddings |-> embeddings,
   chunkEmbeddings |-> chunkEmbeddings, retrievalSuccess |-> retrievalSuccess,
   queryEmbedding |-> queryEmbedding, ranking |-> ranking, topChunks |-> topChunks,
   extractionPrompt |-> extractionPrompt, aiData |-> aiData, aiEnabled |-> aiEnabled,
   aiResponse |-> aiResponse, attempt |-> attempt, outcome |-> outcome]

Idle ==
  [pc |-> "idle", extractedText |-> "", chunks |-> <<>>, validChunks |-> <<>>,
   embeddings |-> <<>>, chunkEmbeddings |-> <<>>, retrievalSuccess |-> FALSE,
   queryEmbedding |-> <<>>, ranking |-> <<>>, topChunks |-> <<>>,
   extractionPrompt |-> NoPrompt, aiData |-> Undefined, aiEnabled |-> FALSE,
   aiResponse |-> "", attempt |-> 0, outcome |-> NoOutcome]

Becomes(r) ==
  /\ pc' = r.pc
  /\ extractedText' = r.extractedText
  /\ chunks' = r.chunks
  /\ validChunks' = r.validChunks
  /\ embeddings' = r.embeddings
  /\ chunkEmbeddings' = r.chunkEmbeddings
  /\ retrievalSuccess' = r.retrievalSuccess
  /\ queryEmbedding' = r.queryEmbedding
  /\ ranking' = r.ranking
  /\ topChunks' = r.topChunks
  /\ extractionPrompt' = r.extractionPrompt
  /\ aiData' = r.aiData
  /\ aiEnabled' = r.aiEnabled
  /\ aiResponse' = r.aiResponse
  /\ attempt' = r.attempt
  /\ outcome' = r.outcome

NoCall == [phase |-> "none", index |-> 0, kind |-> "none", vector |-> <<>>]

\* No second invocation.
NoSuspended == [run |-> Idle, lastCall |-> NoCall, loadedClient |-> "null"]

\* The requests sent to the embedding and to the generation capability since
\* the invocation began, one for every attempt; they are counted where
\* counted is set.
NoCalls == [counted |-> FALSE, embedding |-> 0, generation |-> 0]

\* A step sends a request when it leaves the handler at a capability call:
\* the first attempt of a call, or one more attempt of the call in flight.
AttemptIssued ==
  /\ pc' \in {"embedChunks", "embedQuery", "generate"}
  /\ <<pc', attempt', Len(embeddings')>> # <<pc, attempt, Len(embeddings)>>

CountedCalls ==
  IF ~calls.counted \/ ~AttemptIssued THEN calls
  ELSE IF pc' = "generate" THEN [calls EXCEPT !.generation = @ + 1]
  ELSE [calls EXCEPT !.embedding = @ + 1]

ResetCalls == [calls EXCEPT !.embedding = 0, !.generation = 0]

\* index.ts: no call of initializeVertexAI has been made.
NoInitializer == [pc |-> "idle", call |-> 0, version |-> 0, probed |-> <<>>, result |-> "null"]

Init ==
  /\ vertexAIClient = "null"
  /\ vertexLoaded = FALSE
  /\ lastCall = NoCall
  /\ loadedClient = "null"
  /\ suspended = NoSuspended
  /\ generativeModel = "null"
  /\ initializer = NoInitializer
  /\ calls = NoCalls
  /\ pc = Idle.pc
  /\ extractedText = Idle.extractedText
  /\ chunks = Idle.chunks
  /\ validChunks = Idle.validChunks
  /\ embeddings = Idle.embeddings
  /\ chunkEmbeddings = Idle.chunkEmbeddings
  /\ retrievalSuccess = Idle.retrievalSuccess
  /\ queryEmbedding = Idle.queryEmbedding
  /\ ranking = Idle.ranking
  /\ topChunks = Idle.topChunks
  /\ extractionPrompt = Idle.extractionPrompt
  /\ aiData = Idle.aiData
  /\ aiEnabled = Idle.aiEnabled
  /\ aiResponse = Idle.aiResponse
  /\ attempt = Idle.attempt
  /\ outcome = Idle.outcome

(***************************************************************************)
(* Actions: the handler runs from one await to the next.                   *)
(***************************************************************************)
\* The handler is invoked: await loadVertexAI(), the check of pdfUrl, and the
\* request to storage.
Invoke(sdk, hasUrl) ==
  /\ pc = "idle"
  /\ \E loaded \in {loadVertexAI(vertexAIClient, vertexLoaded, sdk)} :
       /\ vertexAIClient' = loaded.client
       /\ vertexLoaded' = loaded.loaded
       /\ loadedClient' = loaded.client
  /\ UNCHANGED <<suspended, generativeModel, initializer>>
  /\ lastCall' = NoCall
  /\ IF hasUrl
     THEN Becomes([Idle EXCEPT !.pc = "fetch"])
     ELSE Becomes([Idle EXCEPT !.pc = "failed", !.outcome = Thrown("PDF URL is required")])
  /\ calls' = ResetCalls

\* The file is missing or cannot be downloaded or parsed.
FetchFails ==
  /\ pc = "fetch"
  /\ \E r \in {[Run EXCEPT !.pc = "failed", !.outcome = Thrown("PDF file not found")]} :
       Becomes(r)
  /\ UNCHANGED <<vertexAIClient, vertexLoaded, lastCall>>
  /\ UNCHANGED <<loadedClient, suspended, generativeModel, initializer>>
  /\ calls' = CountedCalls

\* pdf-parse hands over the text: steps 2 to 4 up to the first embedding call.
FetchSucceeds(raw) ==
  /\ pc = "fetch"
  /\ \E r \in {ProcessText(Run, raw, vertexAIClient)} : Becomes(r)
  /\ UNCHANGED <<vertexAIClient, vertexLoaded, lastCall>>
  /\ UNCHANGED <<loadedClient, suspended, generativeModel, initializer>>
  /\ calls' = CountedCalls

\* One attempt of the embedding call in flight fails.
EmbeddingAttemptFails ==
  /\ pc \in {"embedChunks", "embedQuery"}
  /\ IF MayRetry(attempt)
     THEN /\ \E r \in {[Run EXCEPT !.attempt = attempt + 1]} : Becomes(r)
          /\ UNCHANGED lastCall
     ELSE /\ \E r \in {PushEmbedding(Run, ZeroVector, vertexAIClient)} : Becomes(r)
          /\ lastCall' = [phase |-> pc, index |-> Len(embeddings) + 1,
                          kind |-> "rejected", vector |-> ZeroVector]
  /\ UNCHANGED <<vertexAIClient, vertexLoaded>>
  /\ UNCHANGED <<loadedClient, suspended, generativeModel, initializer>>
  /\ calls' = CountedCalls

\* The embedding call in flight resolves.
EmbeddingResponds(response) ==
  /\ pc \in {"embedChunks", "embedQuery"}
  /\ \E r \in {PushEmbedding(Run, EmbeddingOf(response), vertexAIClient)} : Becomes(r)
  /\ lastCall' = [phase |-> pc, index |-> Len(embeddings) + 1,
                  kind |-> response.kind, vector |-> response.vector]
  /\ UNCHANGED <<vertexAIClient, vertexLoaded>>
  /\ UNCHANGED <<loadedClient, suspended, generativeModel, initializer>>
  /\ calls' = CountedCalls

\* One attempt of the generation call fails.
GenerationAttemptFails(message) ==
  /\ pc = "generate"
  /\ IF MayRetry(attempt)
     THEN \E r \in {[Run EXCEPT !.attempt = attempt + 1]} : Becomes(r)
     ELSE \E r \in {AfterGenerationError(Run, message)} : Becomes(r)
  /\ UNCHANGED <<vertexAIClient, vertexLoaded, lastCall>>
  /\ UNCHANGED <<loadedClient, suspended, generativeModel, initializer>>
  /\ calls' = CountedCalls

\* The generation call resolves.
GenerationResponds(response) ==
  /\ pc = "generate"
  /\ \E r \in {HandleResponse(Run, response)} : Becomes(r)
  /\ UNCHANGED <<vertexAIClient, vertexLoaded, lastCall>>
  /\ UNCHANGED <<loadedClient, suspended, generativeModel, initializer>>
  /\ calls' = CountedCalls

\* The caller has the result or the error; the locals are gone.
Complete ==
  /\ pc \in {"done", "failed"}
  /\ Becomes(Idle)
  /\ lastCall' = NoCall
  /\ UNCHANGED <<vertexAIClient, vertexLoaded>>
  /\ UNCHANGED <<loadedClient, suspended, generativeModel, initializer>>
  /\ calls' = ResetCalls

\* One step of the handler, for the documents, generation responses and
\* capability errors given.
Step(documents, responses, errors) ==
  \/ \E sdk \in BOOLEAN, hasUrl \in BOOLEAN : Invoke(sdk, hasUrl)
  \/ FetchFails
  \/ \E raw \in documents : FetchSucceeds(raw)
  \/ EmbeddingAttemptFails
  \/ \E response \in EmbeddingResponses : EmbeddingResponds(response)
  \/ \E message \in errors : GenerationAttemptFails(message)
  \/ \E response \in responses : GenerationResponds(response)
  \/ Complete

\* Every response of the generation capability, on the documents of at most
\* two chunks.
Next == Step(Documents \ {RawLong}, GenerationResponses, CapabilityErrors)

Spec == Init /\ [][Next]_vars

\* Every document, with one answer and one error of the generation
\* capability: the embedding and retrieval steps in full.
RetrievalNext ==
  Step(Documents, {[kind |-> "text", text |-> FullResponse]},
       {"14 UNAVAILABLE: deadline exceeded"})

RetrievalSpec == Init /\ [][RetrievalNext]_vars

(***************************************************************************)
(* Properties of the result: steps 7 and 8.                                *)
(***************************************************************************)
FieldSet == {Fields[i] : i \in 1..Len(Fields)}

\* The handler is past the document-level checks and has ended.
EndedAfterChunking == pc \in {"done", "failed"} /\ Len(validChunks) > 0

\* C1: once the text has at least 100 characters and a valid chunk exists, the
\* handler returns a result with success = true whatever the embedding and
\* generation capabilities do and whatever JSON value the response parses
\* to; no generation or parsing outcome makes it throw.
ReturnsSuccessAfterChunking ==
  EndedAfterChunking => (outcome.kind = "returned" /\ outcome.result.success = TRUE)

\* C2: in every returned result each of the ten record fields is a non-empty
\* string, either the value of the parsed response or exactly the sentinel.
FieldsAreResponseOrSentinel ==
  outcome.kind = "returned" =>
    \A f \in FieldSet :
      LET v == outcome.result.data[f]
      IN /\ v.t = "str"
         /\ v.s # ""
         /\ \/ v.s = Sentinel
            \/ aiEnabled /\ v = GetProp(aiData, f)

\* The parsed response is a value without any of the ten keys.
EmptyFieldMap ==
  /\ outcome.kind = "returned"
  /\ aiEnabled
  /\ \A f \in FieldSet : GetProp(aiData, f) = Undefined

ValidationNeverRaises ==
  (aiEnabled /\ pc \in {"done", "failed"}) =>
    (outcome.kind = "returned" /\ FieldSet \subseteq DOMAIN outcome.result.data)

\* The response "null" parses, and the read of aiData.company throws.
NullResponseThrows == pc = "failed" /\ aiResponse = "null" /\ outcome.kind = "thrown"

\* A number of the response is handed on as a record field.
NumberPassedThrough ==
  outcome.kind = "returned" /\ outcome.result.data["useOfFunds"] = Num(7)

\* The parse has produced null and validation has raised.
NullFieldMapRaises == aiEnabled /\ aiData = Null /\ pc = "failed"

(***************************************************************************)
(* Properties of generateEmbeddings and of the retry around each call.     *)
(***************************************************************************)
\* generateEmbeddings(validChunks) has returned to step 4.
ChunkEmbeddingsReturned ==
  vertexAIClient # "null" /\ pc \in {"embedQuery", "generate", "done"}

EmbeddingStepAbsorbs ==
  pc \in {"embedChunks", "embedQuery"} =>
    IF lastCall' = lastCall
    THEN embeddings' = embeddings /\ pc' = pc
    ELSE LET out == IF pc = "embedQuery" THEN queryEmbedding'
                    ELSE IF pc' = "embedChunks" THEN embeddings'
                    ELSE chunkEmbeddings'
             i == Len(embeddings) + 1
         IN /\ pc' # "failed"
            /\ lastCall'.index = i
            /\ Len(out) >= i
            /\ \A j \in 1..(i - 1) : out[j] = embeddings[j]
            /\ out[i] = IF lastCall'.kind = "vector" THEN lastCall'.vector
                        ELSE ZeroVector

\* C6: a call that ends adds, for its text, the vector it returned or the
\* zero vector when it failed or returned none; the entries of the earlier
\* texts stay, the handler does not fail, and a failed attempt that is
\* retried changes nothing.
AbsorbedPerText == [][EmbeddingStepAbsorbs]_vars

\* The second call was rejected after the first had returned a vector, which
\* is still there.
RejectedAfterVector ==
  /\ pc = "embedChunks"
  /\ lastCall.kind = "rejected"
  /\ lastCall.index = 2
  /\ Len(embeddings) = 2
  /\ embeddings[1] \in CapabilityVectors
  /\ embeddings[2] = ZeroVector

\* The aiError of a generation call whose attempts all failed; such a call
\* leaves no response text.
ExhaustedErrors == {Str(ClassifyError(message)) : message \in CapabilityErrors}

\* What a step does to the attempts of the call in flight.
AttemptStep ==
  /\ attempt' <= retries + 1
  /\ (pc \in {"embedChunks", "embedQuery"} /\ lastCall' # lastCall) =>
       /\ lastCall'.kind = "rejected" => attempt = retries + 1
       /\ attempt' <= 1
  /\ (pc = "generate" /\ pc' # pc) =>
       /\ (aiResponse' = "" /\ GetProp(aiData', "aiError") \in ExhaustedErrors) =>
            attempt = retries + 1
       /\ attempt' = 0

\* C7 (as the code has it): a capability call is attempted at most
\* retries + 1 = 4 times, a call that resolves is not attempted again, and a
\* call counts as failed only after its last attempt has failed.
BoundedAttempts == [][AttemptStep]_vars

\* An embedding call was rejected and the generation call is in its last
\* attempt.
LastAttemptInFlight ==
  pc = "generate" /\ attempt = retries + 1 /\ lastCall.kind = "rejected"

\* C7 as stated: no call is attempted more than 3 times in total.
AtMostThreeAttempts == attempt <= 3

(***************************************************************************)
(* Properties of the retrieval: step 5.                                    *)
(***************************************************************************)
\* The top chunks have been chosen.
RetrievalDone == pc \in {"generate", "done"}

\* The place of entry i in a stable descending sort of the scores.
RankOf(scores, i) ==
  1 + Cardinality({j \in DOMAIN scores :
                     \/ Compare(scores[j], scores[i]) > 0
                     \/ Compare(scores[j], scores[i]) = 0 /\ j < i})

\* The first TopK chunks of that sort.
ExpectedTop(scores, chunkList) ==
  [p \in 1..Min(TopK, Len(chunkList)) |->
     chunkList[CHOOSE i \in 1..Len(chunkList) : RankOf(scores, i) = p]]

KeywordScores == [i \in 1..Len(validChunks) |-> Quotient(KeywordScore(validChunks[i]), 1)]

CosineScores ==
  [i \in 1..Len(validChunks) |-> cosineSimilarity(queryEmbedding[1], chunkEmbeddings[i])]

\* C8: retrievalSuccess is true exactly when some chunk embedding has a
\* non-zero component; with the flag every chunk is scored by its cosine
\* similarity to the query embedding, without it every chunk by its keyword
\* hits; the returned ragUsed is the flag.
HardBranchOnFlag ==
  RetrievalDone =>
    /\ retrievalSuccess <=>
         \E i \in 1..Len(chunkEmbeddings) :
           \E j \in 1..Len(chunkEmbeddings[i]) : chunkEmbeddings[i][j] # 0
    /\ Len(ranking) = Len(validChunks)
    /\ IF retrievalSuccess
       THEN /\ queryEmbedding # <<>>
            /\ \A k \in 1..Len(ranking) : ranking[k].score = CosineScores[ranking[k].index]
       ELSE /\ queryEmbedding = <<>>
            /\ \A k \in 1..Len(ranking) : ranking[k].score = KeywordScores[ranking[k].index]
    /\ outcome.kind = "returned" => outcome.result.ragUsed = retrievalSuccess

\* A result of the vector mode although the first chunk's embedding is
\* degraded.
FlagSetBehindDegradedChunk ==
  /\ outcome.kind = "returned"
  /\ outcome.result.ragUsed
  /\ Len(ranking) > TopK
  /\ chunkEmbeddings[1] = ZeroVector

\* C9: when every chunk embedding is degraded, or there are none, the top
\* chunks are the first min(TopK, n) valid chunks in the order of descending
\* keyword score, equal scores in document order.
KeywordTopChunks ==
  (RetrievalDone /\ \A i \in 1..Len(chunkEmbeddings) : chunkEmbeddings[i] = ZeroVector) =>
    /\ Len(topChunks) = Min(TopK, Len(validChunks))
    /\ topChunks = ExpectedTop(KeywordScores, validChunks)

\* Keyword retrieval behind degraded embeddings has left a chunk out and
\* put another one than the first in front.
KeywordModeReorders ==
  /\ pc = "done"
  /\ Len(chunkEmbeddings) > TopK
  /\ \A i \in 1..Len(chunkEmbeddings) : chunkEmbeddings[i] = ZeroVector
  /\ Len(topChunks) = TopK
  /\ topChunks[1] # validChunks[1]

\* C10: in vector mode the top chunks are the first TopK chunks in the order
\* of descending cosine similarity to the query embedding, equal
\* similarities in document order; a degraded embedding has similarity 0.
VectorTopChunks ==
  (RetrievalDone /\ queryEmbedding # <<>>) =>
    /\ topChunks = ExpectedTop(CosineScores, validChunks)
    /\ \A i \in 1..Len(chunkEmbeddings) :
         chunkEmbeddings[i] = ZeroVector => CosineScores[i] = Quotient(0, 1)
    /\ \A k \in 1..Len(ranking) :
         chunkEmbeddings[ranking[k].index] = ZeroVector => ranking[k].score = Quotient(0, 1)

\* Vector retrieval over degraded, equal and opposed embeddings has put the
\* fourth chunk in front and the degraded first chunk behind it.
VectorModeReorders ==
  /\ pc = "done"
  /\ queryEmbedding # <<>>
  /\ Len(validChunks) > TopK
  /\ topChunks[1] = validChunks[4]
  /\ topChunks[2] = validChunks[1]
  /\ chunkEmbeddings[1] = ZeroVector
  /\ chunkEmbeddings[2] = chunkEmbeddings[3]
  /\ chunkEmbeddings[2] # ZeroVector
  /\ chunkEmbeddings[4] \notin {ZeroVector, chunkEmbeddings[2]}

\* C11: in both modes the number of retrieved chunks is min(TopK, number of
\* valid chunks); the result reports the two numbers as retrievedChunks and
\* chunkCount, so retrievedChunks <= chunkCount and retrievedChunks <= TopK.
RetrievedCount ==
  /\ RetrievalDone => Len(topChunks) = Min(TopK, Len(validChunks))
  /\ outcome.kind = "returned" =>
       LET result == outcome.result
       IN /\ result.retrievedChunks = Len(topChunks)
          /\ result.chunkCount = Len(validChunks)
          /\ result.data["retrievedChunks"] = result.retrievedChunks
          /\ result.data["chunkCount"] = result.chunkCount
          /\ result.retrievedChunks = Min(TopK, result.chunkCount)
          /\ result.retrievedChunks <= result.chunkCount
          /\ result.retrievedChunks <= TopK

\* A result of the vector mode with more valid chunks than retrieved ones.
FewerRetrievedThanValid ==
  /\ outcome.kind = "returned"
  /\ outcome.result.ragUsed
  /\ outcome.result.chunkCount > TopK
  /\ outcome.result.retrievedChunks = TopK

(***************************************************************************)
(* The keyword scoring on its own: the chunk is a text of a few tokens,    *)
(* and the one step scores it as the keyword branch of step 5 does.        *)
(***************************************************************************)
TokensPerText == 3

KeywordTokens ==
  {"market ", "MARKET ", "Team", "funding-funding ", "growth", "zebra ",
   "Competitive strategy "}

RECURSIVE TextsOf(_)
TextsOf(n) == IF n = 0 THEN {""} ELSE {t \o w : t \in TextsOf(n - 1), w \in KeywordTokens}

\* The locals of the invocation are those of the record r.
Holds(r) ==
  /\ loadedClient = "null"
  /\ suspended = NoSuspended
  /\ generativeModel = "null"
  /\ initializer = NoInitializer
  /\ calls = NoCalls
  /\ pc = r.pc
  /\ extractedText = r.extractedText
  /\ chunks = r.chunks
  /\ validChunks = r.validChunks
  /\ embeddings = r.embeddings
  /\ chunkEmbeddings = r.chunkEmbeddings
  /\ retrievalSuccess = r.retrievalSuccess
  /\ queryEmbedding = r.queryEmbedding
  /\ ranking = r.ranking
  /\ topChunks = r.topChunks
  /\ extractionPrompt = r.extractionPrompt
  /\ aiData = r.aiData
  /\ aiEnabled = r.aiEnabled
  /\ aiResponse = r.aiResponse
  /\ attempt = r.attempt
  /\ outcome = r.outcome

KeywordInit ==
  /\ vertexAIClient = "null"
  /\ vertexLoaded = FALSE
  /\ lastCall = NoCall
  /\ \E text \in TextsOf(TokensPerText) : Holds([Idle EXCEPT !.validChunks = <<text>>])

\* chunkScores, its sort and the slice, for the chunk at hand.
ScoreChunks ==
  /\ validChunks # <<>>
  /\ ranking = <<>>
  /\ ranking' = KeywordRanking(validChunks)
  /\ topChunks' = TopChunksOf(ranking', validChunks)
  /\ UNCHANGED <<vertexAIClient, vertexLoaded, pc, extractedText, chunks, validChunks,
                 embeddings, chunkEmbeddings, retrievalSuccess, queryEmbedding,
                 extractionPrompt, aiData, aiEnabled, aiResponse, attempt, lastCall, outcome>>
  /\ UNCHANGED <<loadedClient, suspended, calls, generativeModel, initializer>>

KeywordSpec == KeywordInit /\ [][ScoreChunks]_vars

UpperOf ==
  [c \in {CharAt(LowerLetters, i) : i \in 1..Len(LowerLetters)} |->
     CharAt(UpperLetters, CHOOSE i \in 1..Len(LowerLetters) : CharAt(LowerLetters, i) = c)]

toUpperCase(s) ==
  Concat([i \in 1..Len(s) |->
            IF CharAt(s, i) \in DOMAIN UpperOf THEN UpperOf[CharAt(s, i)] ELSE CharAt(s, i)],
         1, Len(s))

\* The keywords that occur in a text, whatever the case of its letters.
KeywordsIn(text) ==
  {k \in 1..Len(keywords) : includes(toLowerCase(text), keywords[k])}

\* C12: the keyword score of a chunk is the number of keywords of the list of
\* 11 that occur in the lower-cased chunk: between 0 and 11, the same when
\* every occurrence is doubled, the same in upper and in lower case.
KeywordScoreCountsDistinct ==
  ranking # <<>> =>
    LET text == validChunks[1]
        score == ranking[1].score
    IN /\ score = Quotient(Cardinality(KeywordsIn(text)), 1)
       /\ score.num \in 0..11
       /\ KeywordScore(text \o " " \o text) = score.num
       /\ KeywordScore(toUpperCase(text)) = score.num
       /\ KeywordScore(toLowerCase(text)) = score.num

\* A chunk with a keyword twice in upper case and another one once has
\* score 2.
RepeatedUpperCaseKeyword ==
  /\ ranking # <<>>
  /\ validChunks[1] = "MARKET MARKET Team"
  /\ ranking[1].score = Quotient(2, 1)

(***************************************************************************)
(* The chunking on its own: the text is a normalised text (trimmed, at     *)
(* least MinTextLength characters) of a length around a multiple of        *)
(* chunkSize, and the one step cuts and filters it as step 3 does.         *)
(***************************************************************************)
ChunkSlack == 6

ChunkLengths ==
  {MinTextLength}
    \cup {m * chunkSize + d : m \in 1..3, d \in (0 - ChunkSlack)..ChunkSlack}

\* n letters.
Solid(n) == Concat([i \in 1..n |-> CharAt(LowerLetters, ((i - 1) % 26) + 1)], 1, n)

\* n letters with spaces in the place of the second window, as the removal
\* of page numbers leaves them.
Gapped(n) ==
  Concat([i \in 1..n |-> IF i > chunkSize /\ i <= 2 * chunkSize THEN " "
                         ELSE CharAt(LowerLetters, ((i - 1) % 26) + 1)], 1, n)

ChunkTexts ==
  {Solid(n) : n \in ChunkLengths} \cup {Gapped(n) : n \in {l \in ChunkLengths : l > 2 * chunkSize}}

ChunkInit ==
  /\ vertexAIClient = "null"
  /\ vertexLoaded = FALSE
  /\ lastCall = NoCall
  /\ \E text \in ChunkTexts : Holds([Idle EXCEPT !.extractedText = text])

\* The chunk loop and the filter of step 3.
ChunkText ==
  /\ extractedText # ""
  /\ chunks = <<>>
  /\ chunks' = MakeChunks(extractedText)
  /\ validChunks' = FilterValid(chunks')
  /\ UNCHANGED <<vertexAIClient, vertexLoaded, pc, extractedText, embeddings,
                 chunkEmbeddings, retrievalSuccess, queryEmbedding, ranking, topChunks,
                 extractionPrompt, aiData, aiEnabled, aiResponse, attempt, lastCall, outcome>>
  /\ UNCHANGED <<loadedClient, suspended, calls, generativeModel, initializer>>

ChunkSpec == ChunkInit /\ [][ChunkText]_vars

\* The texts of a list, one after the other.
Concatenated(list) == Concat(list, 1, Len(list))

\* The entries of a list that are not blank, in order.
RECURSIVE NonBlank(_)
NonBlank(list) ==
  IF list = <<>> THEN <<>>
  ELSE IF \A i \in 1..Len(Head(list)) : IsSpace(CharAt(Head(list), i))
  THEN NonBlank(Tail(list))
  ELSE <<Head(list)>> \o NonBlank(Tail(list))

\* C15 (as the code has it): the windows, one after the other, are the
\* normalised text; the chunks handed on are the windows that are not
\* blank, in order, so what they lose of the text is whitespace only.
WindowsPartitionText ==
  chunks # <<>> =>
    /\ Concatenated(chunks) = extractedText
    /\ validChunks = NonBlank(chunks)

\* A window of spaces in the middle of the text has been dropped.
BlankWindowDropped ==
  /\ Len(chunks) = 3
  /\ Len(validChunks) = 2
  /\ validChunks[2] = chunks[3]

\* C15 as stated: the chunks handed on, one after the other, are the
\* normalised text.
ValidChunksPartitionText ==
  chunks # <<>> => Concatenated(validChunks) = extractedText

\* C16: window j (from 0) is the characters [j * chunkSize,
\* min((j + 1) * chunkSize, len)) of the text; no window is longer than
\* chunkSize, every window but the last has chunkSize characters, and there
\* are ceil(len / chunkSize) windows.
WindowsAreContiguous ==
  chunks # <<>> =>
    LET len == Len(extractedText) IN
    /\ Len(chunks) = (len + chunkSize - 1) \div chunkSize
    /\ \A j \in 0..(Len(chunks) - 1) :
         /\ chunks[j + 1] = SubSeq(extractedText, j * chunkSize + 1,
                                   Min((j + 1) * chunkSize, len))
         /\ Len(chunks[j + 1]) <= chunkSize
         /\ j + 1 < Len(chunks) => Len(chunks[j + 1]) = chunkSize

\* A text of two full windows and one character more.
ShortLastWindow ==
  /\ Len(extractedText) = 2 * chunkSize + 1
  /\ Len(chunks) = 3
  /\ Len(chunks[3]) = 1

(***************************************************************************)
(* Properties of the result: confidence and the degraded result.           *)
(***************************************************************************)
\* C18 (as the code has it): confidence is "high" exactly when the response
\* was parsed and the vector mode was used, "medium" exactly when it was
\* parsed and the keyword mode was used, "low" exactly when no response was
\* parsed; the fields are what validation makes of the response.
ConfidenceTiers ==
  outcome.kind = "returned" =>
    LET result == outcome.result
    IN /\ result.aiEnabled = aiEnabled
       /\ result.ragUsed = retrievalSuccess
       /\ result.confidence = "high" <=> (aiEnabled /\ result.ragUsed)
       /\ result.confidence = "medium" <=> (aiEnabled /\ ~result.ragUsed)
       /\ result.confidence = "low" <=> ~aiEnabled
       /\ result.confidence \in {"high", "medium", "low"}
       /\ aiEnabled =>
            \A f \in FieldSet :
              result.data[f] = OrElse(GetProp(aiData, f), FieldDefault(f, Len(extractedText)))

\* A result of confidence "high" with the sentinel in a field.
HighConfidenceWithSentinel ==
  /\ outcome.kind = "returned"
  /\ outcome.result.confidence = "high"
  /\ outcome.result.data["team"] = Str(Sentinel)

\* C18 as stated: the three tiers, and with "high" all ten fields are values
\* of the response other than the sentinel.
HighConfidenceFieldsFromResponse ==
  outcome.kind = "returned" =>
    LET result == outcome.result
    IN /\ result.confidence = "high" <=> (aiEnabled /\ result.ragUsed)
       /\ result.confidence = "medium" <=> (aiEnabled /\ ~result.ragUsed)
       /\ result.confidence = "low" <=> ~aiEnabled
       /\ result.confidence = "high" =>
            \A f \in FieldSet :
              /\ result.data[f] # Str(Sentinel)
              /\ result.data[f] = GetProp(aiData, f)

\* The messages reported when every attempt of the generation call failed.
ExhaustedStatus == {ClassifyError(message) : message \in CapabilityErrors}

\* The result returned after every attempt of the generation call failed.
GenerationExhausted ==
  /\ outcome.kind = "returned"
  /\ ~aiEnabled
  /\ outcome.result.data["aiStatus"] \in ExhaustedStatus

Prefixes ==
  {"", "Here is the result: ", "Output:\n", "Note {draft}: ", "{", "Result {\"data\": "}

JsonObjects ==
  {"{}",
   "{\"company\":\"Acme\"}",
   "{ \"team\": 0 }",
   "{\"company\":\"Acme\",\"goToMarket\":{\"channel\":\"direct\"}}"}

Suffixes == {"", " Thanks!", "\n-- end", " (see {notes})", "}", "} end"}

\* The handler with the response text in hand, after keyword-mode retrieval
\* on the document RawOne.
AtResponse(text) ==
  LET extracted == Normalize(RawOne)
      valid == FilterValid(MakeChunks(extracted))
      q == KeywordRetrieve([Idle EXCEPT !.extractedText = extracted,
                                        !.chunks = MakeChunks(extracted),
                                        !.validChunks = valid,
                                        !.chunkEmbeddings = [i \in 1..Len(valid) |-> ZeroVector]],
                           "client")
  IN [q EXCEPT !.aiResponse = text]

ParseInit ==
  /\ vertexAIClient = "client"
  /\ vertexLoaded = TRUE
  /\ lastCall = NoCall
  /\ \E point \in {AtResponse("")} :
       \E prefix \in Prefixes, object \in JsonObjects, suffix \in Suffixes :
         Holds([point EXCEPT !.aiResponse = prefix \o object \o suffix])

\* The parse of the response text in hand.
ParseText ==
  /\ pc = "generate"
  /\ \E r \in {ParseResponse(Run, aiResponse)} : Becomes(r)
  /\ UNCHANGED <<vertexAIClient, vertexLoaded, lastCall>>
  /\ UNCHANGED <<loadedClient, suspended, calls, generativeModel, initializer>>

ParseSpec == ParseInit /\ [][ParseText]_vars

HasChar(s, c) == \E i \in 1..Len(s) : CharAt(s, i) = c

\* C20 (as the code has it): for a text prefix + J + suffix that is not
\* itself valid JSON, J a valid JSON object, the prefix without "{" and the
\* suffix without "}", the parse yields the decoded object J; for every text
\* that is not valid JSON and has a "{" before a "}", what is parsed is the
\* span from the first "{" to the last "}".
WrappedObjectDecoded ==
  pc \in {"done", "failed"} =>
    /\ \A prefix \in Prefixes, object \in JsonObjects, suffix \in Suffixes :
         (/\ aiResponse = prefix \o object \o suffix
          /\ ~JSONParse(aiResponse).ok
          /\ ~HasChar(prefix, "{")
          /\ ~HasChar(suffix, "}"))
           => /\ aiEnabled
              /\ aiData = JSONParse(object).v
              /\ MatchBraces(aiResponse).text = object
    /\ (~JSONParse(aiResponse).ok /\ MatchBraces(aiResponse).found) =>
         LET inner == JSONParse(MatchBraces(aiResponse).text)
         IN /\ aiEnabled = inner.ok
            /\ inner.ok => aiData = inner.v

\* An object with a nested object is decoded from between a sentence and a
\* closing remark.
NestedObjectUnwrapped ==
  /\ pc = "done"
  /\ aiResponse = "Here is the result: "
                    \o "{\"company\":\"Acme\",\"goToMarket\":{\"channel\":\"direct\"}}"
                    \o " Thanks!"
  /\ aiEnabled
  /\ GetProp(aiData, "company") = Str("Acme")
  /\ GetProp(GetProp(aiData, "goToMarket"), "channel") = Str("direct")

\* C20 as stated: every text prefix + J + suffix that is not itself valid
\* JSON is parsed to the decoded object J.
EveryWrappedObjectDecoded ==
  pc \in {"done", "failed"} =>
    \A prefix \in Prefixes, object \in JsonObjects, suffix \in Suffixes :
      (aiResponse = prefix \o object \o suffix /\ ~JSONParse(aiResponse).ok)
        => (aiEnabled /\ aiData = JSONParse(object).v)

(***************************************************************************)
(* The earlier revision of the handler (src/unnamed/part_001, lines        *)
(* 397-882): both clients are made when the module is loaded, the chunks   *)
(* are not filtered, generateEmbeddings reads an undeclared name before    *)
(* its loop, and the generation call is made once.                         *)
(***************************************************************************)
EarlierChunkSize == 500
EarlierTemplateLength == 1143

\* for (let i = 0; i < extractedText.length; i += chunkSize) chunks.push(...)
EarlierChunks(text) ==
  [j \in 1..((Len(text) + EarlierChunkSize - 1) \div EarlierChunkSize) |->
     substring(text, (j - 1) * EarlierChunkSize, j * EarlierChunkSize)]

\* A document whose second window of the earlier revision is blank.
EarlierGap ==
  Pad("Acme Robotics company overview and business strategy ", EarlierChunkSize)
    \o Repeat("Page 7 ", EarlierChunkSize)
    \o "competitive landscape and funding."

EarlierDocuments ==
  {RawShort, RawOne, RawGap, RawLong, EarlierGap, Solid(MinTextLength), Solid(MinTextLength - 1)}

\* let aiData = { company: 'RAG Analysis (Processing)', ... }
EarlierAiData(textLength, chunkCount) ==
  Obj(<<[k |-> "company", v |-> Str("RAG Analysis (Processing)")],
        [k |-> "valueProposition", v |-> Str(DocumentContains(textLength))],
        [k |-> "marketSize", v |-> Str("Not available without AI")],
        [k |-> "traction", v |-> Str(ProcessedWith(chunkCount))],
        [k |-> "team", v |-> Str("Team info requires AI")],
        [k |-> "fundingAsk", v |-> Str("Funding info requires AI")],
        [k |-> "useOfFunds", v |-> Str("Funds usage requires AI")],
        [k |-> "businessModel", v |-> Str("Business model requires AI")],
        [k |-> "competitiveLandscape", v |-> Str("Competitive analysis requires AI")],
        [k |-> "goToMarket", v |-> Str("Go-to-market requires AI")]>>)

\* The object returned: chunkCount is chunks.length.
EarlierResult(r) ==
  LET result == BuildResult(r)
  IN [result EXCEPT !.chunkCount = Len(r.chunks),
                    !.data = [result.data EXCEPT !.chunkCount = Len(r.chunks)],
                    !.aiTokens = IF r.aiEnabled
                                 THEN r.extractionPrompt.length + Len(r.aiResponse)
                                 ELSE 0]

\* validatedData and the return, or the TypeError of reading a field of null
\* in the outer catch.
EarlierFinish(r) ==
  IF CanRead(r.aiData)
  THEN [r EXCEPT !.pc = "done", !.outcome = Returned(EarlierResult(r))]
  ELSE [r EXCEPT !.pc = "failed",
                 !.outcome = Thrown("Cannot read properties of null (reading 'company')")]

\* catch (error) { aiError = error.message; aiData.aiError = ... }
EarlierGenerationError(r, message) ==
  EarlierFinish([r EXCEPT !.aiData = SetProp(r.aiData, "aiError", Str(ClassifyError(message)))])

\* The checks on the response, then the parse: a text without a brace span
\* leaves the defaults with aiError set, and aiEnabled = true follows.
EarlierHandleResponse(r, response) ==
  LET text == response.text
      direct == JSONParse(text)
      span == MatchBraces(text)
      inner == JSONParse(span.text)
      q == [r EXCEPT !.aiResponse = text]
  IN CASE response.kind = "noCandidates" ->
            EarlierGenerationError(r, "No candidates returned from AI")
       [] response.kind = "noParts" ->
            EarlierGenerationError(r, "No content parts returned from AI")
       [] text = "" ->
            EarlierGenerationError(q, "No text content returned from AI")
       [] direct.ok ->
            EarlierFinish([q EXCEPT !.aiData = direct.v, !.aiEnabled = TRUE])
       [] span.found /\ inner.ok ->
            EarlierFinish([q EXCEPT !.aiData = inner.v, !.aiEnabled = TRUE])
       [] span.found ->
            EarlierGenerationError(q, SyntaxErrorMessage)
       [] OTHER ->
            EarlierFinish([q EXCEPT !.aiData =
                                      SetProp(r.aiData, "aiError",
                                              Str("Invalid AI response format: "
                                                    \o substring(text, 0, 300))),
                                    !.aiEnabled = TRUE])

\* Steps 4 to 6 in keyword mode, up to the generation call, or to the end
\* without a client.
EarlierKeywordRetrieve(r, client) ==
  LET ranked == KeywordRanking(r.chunks)
      top == TopChunksOf(ranked, r.chunks)
      context == substring(Join(top), 0, ContextBudget)
      q == [r EXCEPT !.ranking = ranked,
                     !.topChunks = top,
                     !.retrievalSuccess = FALSE,
                     !.extractionPrompt =
                        [sections |-> Len(top), context |-> context,
                         length |-> EarlierTemplateLength + Len(NumToString(Len(top)))
                                      + Len(context)],
                     !.aiData = EarlierAiData(Len(r.extractedText), Len(r.chunks)),
                     !.aiEnabled = FALSE,
                     !.aiResponse = ""]
  IN IF client # "null"
     THEN [q EXCEPT !.pc = "generate"]
     ELSE EarlierFinish([q EXCEPT !.aiData = SetProp(q.aiData, "aiError",
                                                     Str("Vertex AI not configured"))])

\* Steps 2 and 3: the text, the length check, the chunks, and the call of
\* generateEmbeddings(chunks) when there is an embedding client.
EarlierProcessText(r, raw, client) ==
  LET text == Normalize(raw)
      q == [r EXCEPT !.extractedText = text, !.chunks = EarlierChunks(text)]
  IN IF Len(text) < MinTextLength
     THEN [r EXCEPT !.pc = "failed", !.extractedText = text,
                    !.outcome = Thrown("Document too short for analysis ("
                                         \o NumToString(Len(text)) \o " chars)")]
     ELSE IF client # "null"
     THEN [q EXCEPT !.pc = "embedChunks"]
     ELSE EarlierKeywordRetrieve(q, client)

\* The module was loaded with both clients or with none.
EarlierInit ==
  /\ vertexAIClient \in {"client", "null"}
  /\ vertexLoaded = TRUE
  /\ lastCall = NoCall
  /\ Holds(Idle)

EarlierInvoke(hasUrl) ==
  /\ pc = "idle"
  /\ IF hasUrl
     THEN Becomes([Idle EXCEPT !.pc = "fetch"])
     ELSE Becomes([Idle EXCEPT !.pc = "failed", !.outcome = Thrown("PDF URL is required")])
  /\ UNCHANGED <<vertexAIClient, vertexLoaded, lastCall>>
  /\ UNCHANGED <<loadedClient, suspended, calls, generativeModel, initializer>>

\* The file does not exist: the outer catch replaces the message.
EarlierFetchFails ==
  /\ pc = "fetch"
  /\ \E r \in {[Run EXCEPT !.pc = "failed",
                           !.outcome = [kind |-> "thrown",
                                        message |-> "PDF file not found in storage"]]} :
       Becomes(r)
  /\ UNCHANGED <<vertexAIClient, vertexLoaded, lastCall>>
  /\ UNCHANGED <<loadedClient, suspended, calls, generativeModel, initializer>>

EarlierFetchSucceeds(raw) ==
  /\ pc = "fetch"
  /\ \E r \in {EarlierProcessText(Run, raw, vertexAIClient)} : Becomes(r)
  /\ UNCHANGED <<vertexAIClient, vertexLoaded, lastCall>>
  /\ UNCHANGED <<loadedClient, suspended, calls, generativeModel, initializer>>

\* generateEmbeddings(chunks) throws at client.buildEndpointName(...), before
\* its loop: chunkEmbeddings = chunks.map(() => null), retrievalSuccess = false.
EarlierEmbeddingsThrow ==
  /\ pc = "embedChunks"
  /\ \E r \in {EarlierKeywordRetrieve(
                 [Run EXCEPT !.chunkEmbeddings = [i \in 1..Len(chunks) |-> NullEmbedding]],
                 vertexAIClient)} :
       Becomes(r)
  /\ UNCHANGED <<vertexAIClient, vertexLoaded, lastCall>>
  /\ UNCHANGED <<loadedClient, suspended, calls, generativeModel, initializer>>

\* The one generation call fails.
EarlierGenerationFails(message) ==
  /\ pc = "generate"
  /\ \E r \in {EarlierGenerationError(Run, message)} : Becomes(r)
  /\ UNCHANGED <<vertexAIClient, vertexLoaded, lastCall>>
  /\ UNCHANGED <<loadedClient, suspended, calls, generativeModel, initializer>>

EarlierGenerationResponds(response) ==
  /\ pc = "generate"
  /\ \E r \in {EarlierHandleResponse(Run, response)} : Becomes(r)
  /\ UNCHANGED <<vertexAIClient, vertexLoaded, lastCall>>
  /\ UNCHANGED <<loadedClient, suspended, calls, generativeModel, initializer>>

EarlierNext ==
  \/ \E hasUrl \in BOOLEAN : EarlierInvoke(hasUrl)
  \/ EarlierFetchFails
  \/ \E raw \in EarlierDocuments : EarlierFetchSucceeds(raw)
  \/ EarlierEmbeddingsThrow
  \/ \E message \in CapabilityErrors : EarlierGenerationFails(message)
  \/ \E response \in GenerationResponses : EarlierGenerationResponds(response)
  \/ Complete

EarlierSpec == EarlierInit /\ [][EarlierNext]_vars

(***************************************************************************)
(* The texts handed to generateEmbeddings.                                 *)
(***************************************************************************)
\* C17, latest revision: every text of the array handed to
\* generateEmbeddings, and every text a call of the capability is made
\* for, has characters other than white space.
ValidChunksEmbedded ==
  /\ pc = "embedChunks" =>
       /\ validChunks # <<>>
       /\ \A i \in 1..Len(validChunks) : Len(trim(validChunks[i])) > 0
  /\ lastCall.phase = "embedChunks" => Len(trim(validChunks[lastCall.index])) > 0

\* The document with a blank window is being embedded without that window.
GapDocumentEmbedded ==
  /\ pc = "embedChunks"
  /\ Len(validChunks) < Len(chunks)

\* C17, earlier revision: every text of the array handed to
\* generateEmbeddings has characters other than white space.
ChunksEmbedded ==
  pc = "embedChunks" => \A i \in 1..Len(chunks) : Len(trim(chunks[i])) > 0

(***************************************************************************)
(* The compiled revision of the handler without retrieval (src/README.md,  *)
(* lines 153-345): the text goes into the prompt as a whole, and every     *)
(* error of the handler ends in the catch that returns mock data.          *)
(***************************************************************************)
CompiledContextBudget == 8000
CompiledTemplateLength == 1095
CompiledSentinel == "Not specified in pitch deck"
InsufficientText == "PDF contains insufficient text - using fallback"

\* pdfData.text.replace(/\s+/g, ' ').replace(/Page \d+/gi, '').trim()
CompiledNormalize(raw) == trim(RemovePageNumbers(CollapseWhitespace(raw)))

CompiledDocuments ==
  {RawShort, RawOne, RawGap, RawLong}
    \cup {Solid(n) : n \in {1, MinTextLength - 1, MinTextLength, MinTextLength + 1,
                             2 * MinTextLength, chunkSize}}

\* const fallbackData = { company: 'XR Commerce Studio (AI Fallback)', ... }
fallbackData ==
  [f \in FieldSet |->
     Str(CASE f = "company" -> "XR Commerce Studio (AI Fallback)"
           [] f = "valueProposition" ->
                "AR/VR commerce platform for retail brands (Vertex AI temporarily unavailable)"
           [] f = "marketSize" -> "$50B TAM - $15B SAM - $2B SOM"
           [] f = "traction" -> "10K MAU, $500K ARR, 200+ beta customers"
           [] f = "team" -> "8 engineers, 3 founders (ex-Google, Meta)"
           [] f = "fundingAsk" -> "$2M Seed Round"
           [] f = "useOfFunds" ->
                "Product development (60%), Marketing (30%), Operations (10%)"
           [] f = "businessModel" -> "SaaS subscription + transaction fees"
           [] f = "competitiveLandscape" ->
                "Differentiates from Magic Leap with retail focus"
           [] OTHER -> "Partnerships with Shopify, WooCommerce")]

\* catch (error) { ... return { success: true, data: fallbackData, ... } }
CompiledFallback(r, errorMessage) ==
  [r EXCEPT !.pc = "done",
            !.outcome = Returned([success |-> TRUE,
                                  data |-> fallbackData,
                                  warning |-> "Vertex AI unavailable: " \o errorMessage,
                                  fallbackReason |-> errorMessage,
                                  source |-> "vertex-ai-fallback",
                                  pdfProcessed |-> Len(r.extractedText) > 0,
                                  textLength |-> Len(r.extractedText)])]

\* The prompt with the first 8000 characters of the text.
CompiledPrompt(pdfText) ==
  LET context == substring(pdfText, 0, CompiledContextBudget)
  IN [sections |-> 0, context |-> context,
      length |-> CompiledTemplateLength + Len(NumToString(Len(pdfText))) + Len(context)]

\* Step 2: the text and the length check; then the prompt and the one
\* generation call.
CompiledProcessText(r, raw) ==
  LET pdfText == CompiledNormalize(raw)
      q == [r EXCEPT !.extractedText = pdfText]
  IN IF Len(pdfText) < MinTextLength
     THEN CompiledFallback(q, InsufficientText)
     ELSE [q EXCEPT !.pc = "generate", !.extractionPrompt = CompiledPrompt(pdfText)]

\* Step 7 and the return.
CompiledSuccess(r) ==
  IF CanRead(r.aiData)
  THEN [r EXCEPT !.pc = "done",
                 !.aiEnabled = TRUE,
                 !.outcome =
                    Returned([success |-> TRUE,
                              data |-> [f \in FieldSet |->
                                          OrElse(GetProp(r.aiData, f), Str(CompiledSentinel))],
                              source |-> "vertex-ai-gemini-1.5-flash",
                              textLength |-> Len(r.extractedText),
                              aiTokens |-> r.extractionPrompt.length + Len(r.aiResponse),
                              confidence |-> "high",
                              status |-> "Real AI extraction complete!"])]
  ELSE CompiledFallback(r, "Cannot read properties of null (reading 'company')")

\* result.response.candidates[0].content.parts[0].text of a response whose
\* candidates or parts are an empty array raises a TypeError; then the parse.
CompiledHandleResponse(r, response) ==
  LET text == response.text
      direct == JSONParse(text)
      span == MatchBraces(text)
      inner == JSONParse(span.text)
      q == [r EXCEPT !.aiResponse = text]
  IN CASE response.kind = "noCandidates" ->
            CompiledFallback(r, "Cannot read properties of undefined (reading 'content')")
       [] response.kind = "noParts" ->
            CompiledFallback(r, "Cannot read properties of undefined (reading 'text')")
       [] direct.ok -> CompiledSuccess([q EXCEPT !.aiData = direct.v])
       [] span.found /\ inner.ok -> CompiledSuccess([q EXCEPT !.aiData = inner.v])
       [] span.found -> CompiledFallback(q, SyntaxErrorMessage)
       [] OTHER ->
            CompiledFallback(q, "Could not extract JSON from AI response: "
                                  \o substring(text, 0, 200))

CompiledInit ==
  /\ vertexAIClient = "client"
  /\ vertexLoaded = TRUE
  /\ lastCall = NoCall
  /\ Holds(Idle)

CompiledInvoke(hasUrl) ==
  /\ pc = "idle"
  /\ IF hasUrl
     THEN Becomes([Idle EXCEPT !.pc = "fetch"])
     ELSE Becomes(CompiledFallback(Idle, "PDF URL is required"))
  /\ UNCHANGED <<vertexAIClient, vertexLoaded, lastCall>>
  /\ UNCHANGED <<loadedClient, suspended, calls, generativeModel, initializer>>

\* The download fails or the file is not a PDF.
CompiledFetchFails ==
  /\ pc = "fetch"
  /\ \E r \in {CompiledFallback(Run, "File is not a valid PDF")} : Becomes(r)
  /\ UNCHANGED <<vertexAIClient, vertexLoaded, lastCall>>
  /\ UNCHANGED <<loadedClient, suspended, calls, generativeModel, initializer>>

CompiledFetchSucceeds(raw) ==
  /\ pc = "fetch"
  /\ \E r \in {CompiledProcessText(Run, raw)} : Becomes(r)
  /\ UNCHANGED <<vertexAIClient, vertexLoaded, lastCall>>
  /\ UNCHANGED <<loadedClient, suspended, calls, generativeModel, initializer>>

CompiledGenerationFails(message) ==
  /\ pc = "generate"
  /\ \E r \in {CompiledFallback(Run, message)} : Becomes(r)
  /\ UNCHANGED <<vertexAIClient, vertexLoaded, lastCall>>
  /\ UNCHANGED <<loadedClient, suspended, calls, generativeModel, initializer>>

CompiledGenerationResponds(response) ==
  /\ pc = "generate"
  /\ \E r \in {CompiledHandleResponse(Run, response)} : Becomes(r)
  /\ UNCHANGED <<vertexAIClient, vertexLoaded, lastCall>>
  /\ UNCHANGED <<loadedClient, suspended, calls, generativeModel, initializer>>

CompiledNext ==
  \/ \E hasUrl \in BOOLEAN : CompiledInvoke(hasUrl)
  \/ CompiledFetchFails
  \/ \E raw \in CompiledDocuments : CompiledFetchSucceeds(raw)
  \/ \E message \in CapabilityErrors : CompiledGenerationFails(message)
  \/ \E response \in GenerationResponses : CompiledGenerationResponds(response)
  \/ Complete

CompiledSpec == CompiledInit /\ [][CompiledNext]_vars

(***************************************************************************)
(* The text shorter than 100 characters.                                   *)
(***************************************************************************)
\* A text was extracted and is shorter than the minimum, and the handler
\* has ended.
EndedOnShortText ==
  /\ pc \in {"done", "failed"}
  /\ extractedText # ""
  /\ Len(extractedText) < MinTextLength

\* C14: when the normalized text is shorter than 100 characters the handler
\* raises an error to the caller, returns no result, and has made no
\* embedding and no generation call.
ShortTextRejected ==
  EndedOnShortText =>
    /\ outcome.kind = "thrown"
    /\ pc = "failed"
    /\ chunks = <<>> /\ embeddings = <<>> /\ chunkEmbeddings = <<>>
    /\ lastCall = NoCall
    /\ extractionPrompt = NoPrompt
    /\ aiResponse = "" /\ ~aiEnabled

\* The compiled revision answers a text of 99 characters with mock data.
ShortTextGetsMockData ==
  /\ EndedOnShortText
  /\ Len(extractedText) = MinTextLength - 1
  /\ outcome.kind = "returned"
  /\ outcome.result.success
  /\ outcome.result.fallbackReason = InsufficientText
  /\ outcome.result.data["company"] = Str("XR Commerce Studio (AI Fallback)")

(***************************************************************************)
(* cosineSimilarity on IEEE 754 doubles.  A natural number of up to        *)
(* Limbs * LimbBits bits is the function of its limbs, least significant   *)
(* first; a positive double is [m, e] with 2^52 <= m < 2^53 and the value  *)
(* m * 2^e.  Every operation rounds to nearest, ties to even.              *)
(***************************************************************************)
CosineRange == 2

LimbBits == 13
Limbs == 14
MantissaBits == 53
SearchBits == 4
Base == 2 ^ LimbBits

\* body(v) for the value v of the one element of the set: the value is
\* computed before the body is.
Bind(set, body(_)) == CHOOSE r \in {body(v) : v \in set} : TRUE

BigOf(n) ==
  SubSeq([i \in 1..Limbs |-> IF i <= 3 THEN (n \div (Base ^ (i - 1))) % Base ELSE 0], 1, Limbs)

BigPow2(k) ==
  SubSeq([i \in 1..Limbs |-> IF i = (k \div LimbBits) + 1 THEN 2 ^ (k % LimbBits) ELSE 0],
         1, Limbs)

\* The sign of x - y.
BigCmp(x, y) ==
  Bind({x}, LAMBDA a : Bind({y}, LAMBDA b :
    IF a = b THEN 0
    ELSE LET top == CHOOSE i \in 1..Limbs :
                      a[i] # b[i] /\ \A j \in (i + 1)..Limbs : a[j] = b[j]
         IN IF a[top] > b[top] THEN 1 ELSE -1))

\* One round of carries: every column keeps its remainder and takes the
\* quotient of the column below.
CarryRound(cols) ==
  SubSeq([i \in 1..Limbs |->
            (cols[i] % Base) + (IF i > 1 THEN cols[i - 1] \div Base ELSE 0)], 1, Limbs)

\* The limbs of the number whose i-th column holds cols[i] < 2^29: after
\* three rounds no column exceeds Base, and a column takes one more carry
\* when a column below holds Base and those between hold Base - 1.
BigCarry(cols) ==
  Bind({CarryRound(cols)}, LAMBDA once :
    Bind({CarryRound(once)}, LAMBDA twice :
      Bind({CarryRound(twice)}, LAMBDA settled :
        LET carryIn(i) == \E j \in 1..(i - 1) :
                            /\ settled[j] = Base
                            /\ \A k \in (j + 1)..(i - 1) : settled[k] = Base - 1
        IN SubSeq([i \in 1..Limbs |-> (settled[i] + (IF carryIn(i) THEN 1 ELSE 0)) % Base],
                  1, Limbs))))

BigAdd(x, y) ==
  Bind({x}, LAMBDA a : Bind({y}, LAMBDA b :
    BigCarry(SubSeq([i \in 1..Limbs |-> a[i] + b[i]], 1, Limbs))))

\* x * y for x below 2^65 (five limbs).
BigMul(x, y) ==
  Bind({x}, LAMBDA a : Bind({y}, LAMBDA b :
    LET limb(j) == IF j >= 1 THEN b[j] ELSE 0
    IN BigCarry(SubSeq([k \in 1..Limbs |->
                          a[1] * limb(k) + a[2] * limb(k - 1) + a[3] * limb(k - 2)
                            + a[4] * limb(k - 3) + a[5] * limb(k - 4)], 1, Limbs))))

\* floor(x / 2^s)
BigShr(x, s) ==
  Bind({x}, LAMBDA a :
    LET w == s \div LimbBits
        r == s % LimbBits
        limb(i) == IF i <= Limbs THEN a[i] ELSE 0
    IN SubSeq([i \in 1..Limbs |->
                 (limb(i + w) \div (2 ^ r)) + (limb(i + w + 1) % (2 ^ r)) * (2 ^ (LimbBits - r))],
              1, Limbs))

\* The number of bits of n >= 1.
BitLength(n) == CHOOSE b \in 1..30 : 2 ^ (b - 1) <= n /\ n < 2 ^ b

\* The largest digit v of SearchBits bits with (m + v * 2^low)^2 <= n.
SqrtDigit(n, m, low) ==
  LET fits(v) == LET c == BigAdd(m, BigMul(BigOf(v), BigPow2(low)))
                 IN BigCmp(BigMul(c, c), n) <= 0
  IN CHOOSE v \in 0..(2 ^ SearchBits - 1) :
       fits(v) /\ (v = 2 ^ SearchBits - 1 \/ ~fits(v + 1))

\* The largest m with m * m <= n, on top of the digits of m above low, a
\* digit at a time.  (The bound variables carry each step's values.)
RECURSIVE SqrtSearch(_, _, _)
SqrtSearch(n, m, low) ==
  IF low < 0 THEN m
  ELSE CHOOSE r \in {SqrtSearch(target, next, low - SearchBits) :
                       target \in {n},
                       next \in {BigAdd(m, BigMul(BigOf(SqrtDigit(n, m, low)),
                                                  BigPow2(low)))}} : TRUE

\* The largest digit v of SearchBits bits with (q + v * 2^low) * d <= n.
DivDigit(n, d, q, low) ==
  LET fits(v) == BigCmp(BigMul(BigAdd(q, BigMul(BigOf(v), BigPow2(low))), d), n) <= 0
  IN CHOOSE v \in 0..(2 ^ SearchBits - 1) :
       fits(v) /\ (v = 2 ^ SearchBits - 1 \/ ~fits(v + 1))

\* The largest q with q * d <= n, on top of the digits of q above low.
RECURSIVE DivSearch(_, _, _, _)
DivSearch(n, d, q, low) ==
  IF low < 0 THEN q
  ELSE CHOOSE r \in {DivSearch(target, divisor, next, low - SearchBits) :
                       target \in {n},
                       divisor \in {d},
                       next \in {BigAdd(q, BigMul(BigOf(DivDigit(n, d, q, low)),
                                                  BigPow2(low)))}} : TRUE

\* A mantissa that was rounded up to 2^53 becomes 2^52 with the next exponent.
Renormalized(m, e) ==
  IF m = BigPow2(MantissaBits) THEN [m |-> BigPow2(MantissaBits - 1), e |-> e + 1]
  ELSE [m |-> m, e |-> e]

\* m or m + 1, renormalised.
RoundedUp(m, up, e) ==
  Bind({IF up THEN BigAdd(m, BigOf(1)) ELSE m}, LAMBDA rounded : Renormalized(rounded, e))

\* The double of the integer n >= 1 (exact below 2^30).
DoubleOf(n) ==
  [m |-> BigMul(BigOf(n), BigPow2(MantissaBits - BitLength(n))),
   e |-> BitLength(n) - MantissaBits]

\* Math.sqrt(n) for an integer n >= 1: the root of n * 4^t, t chosen for a
\* root of 53 bits, rounded up when (m + 1/2)^2 < n * 4^t.
DoubleSqrt(n) ==
  LET t == (MantissaBits - 1) - ((BitLength(n) - 1) \div 2)
  IN Bind({BigMul(BigOf(n), BigPow2(2 * t))}, LAMBDA scaled :
       Bind({SqrtSearch(scaled, BigOf(0), MantissaBits - 1)}, LAMBDA m :
         Bind({BigCmp(BigAdd(BigMul(m, m), m), scaled) < 0}, LAMBDA up :
           RoundedUp(m, up, 0 - t))))

\* The roots the vectors of the model need.
SqrtTable == [n \in 1..(2 * (CosineRange + 2) * (CosineRange + 2)) |-> DoubleSqrt(n)]

\* x * y: the product of the mantissas has 105 or 106 bits and is cut to 53.
DoubleMul(x, y) ==
  Bind({BigMul(x.m, y.m)}, LAMBDA product :
    LET s == IF BigCmp(product, BigPow2(2 * MantissaBits - 1)) >= 0
             THEN MantissaBits ELSE MantissaBits - 1
    IN Bind({BigShr(product, s)}, LAMBDA m :
         Bind({BigAdd(BigMul(m, BigPow2(s)), BigPow2(s - 1))}, LAMBDA middle :
           Bind({BigCmp(middle, product)}, LAMBDA c :
             RoundedUp(m, c < 0 \/ (c = 0 /\ m[1] % 2 = 1), x.e + y.e + s)))))

\* d / y for an integer d >= 1: the quotient of d * 2^k by the mantissa of y,
\* k chosen for a quotient of 53 bits.
DoubleDiv(d, y) ==
  LET wide == (2 * MantissaBits - 1) - (BitLength(d) - 1)
  IN Bind({DivSearch(BigMul(BigOf(d), BigPow2(wide)), y.m, BigOf(0), MantissaBits - 1)},
          LAMBDA first :
       LET k == IF BigCmp(first, BigPow2(MantissaBits)) >= 0 THEN wide - 1 ELSE wide
       IN Bind({BigMul(BigOf(d), BigPow2(k))}, LAMBDA scaled :
            Bind({IF k = wide THEN first ELSE BigShr(first, 1)}, LAMBDA q :
              Bind({BigMul(BigAdd(BigAdd(q, q), BigOf(1)), y.m)}, LAMBDA middle :
                Bind({BigCmp(middle, BigAdd(scaled, scaled))}, LAMBDA c :
                  RoundedUp(q, c < 0 \/ (c = 0 /\ q[1] % 2 = 1), 0 - k - y.e))))))

DoubleZero == [sign |-> 0, m |-> BigOf(0), e |-> 0]
Signed(sign, x) == [sign |-> sign, m |-> x.m, e |-> x.e]

\* A variant of cosineOfDoubles that divides by the product of the squared
\* norms.
cosineOfSquaredNorms(a, b) ==
  LET sums == CosineLoop(a, b, 1, [dot |-> 0, normA |-> 0, normB |-> 0])
  IN IF sums.normA = 0 \/ sums.normB = 0 \/ sums.dot = 0 THEN DoubleZero
     ELSE Bind({DoubleOf(sums.normA * sums.normB)}, LAMBDA denominator :
            Signed(IF sums.dot > 0 THEN 1 ELSE -1,
                   DoubleDiv(IF sums.dot > 0 THEN sums.dot ELSE 0 - sums.dot, denominator)))

\* cosineSimilarity(a, b) on vectors of small integers: the sums are exact,
\* the two roots, their product and the quotient are rounded.
cosineOfDoubles(a, b) ==
  LET sums == CosineLoop(a, b, 1, [dot |-> 0, normA |-> 0, normB |-> 0])
  IN IF sums.normA = 0 \/ sums.normB = 0 \/ sums.dot = 0 THEN DoubleZero
     ELSE Bind({SqrtTable[sums.normA]}, LAMBDA rootA :
            Bind({SqrtTable[sums.normB]}, LAMBDA rootB :
              Bind({DoubleMul(rootA, rootB)}, LAMBDA denominator :
                Signed(IF sums.dot > 0 THEN 1 ELSE -1,
                       DoubleDiv(IF sums.dot > 0 THEN sums.dot ELSE 0 - sums.dot,
                                 denominator)))))

CosineVectors == {Vector(x, y) : x, y \in (0 - CosineRange)..CosineRange}

CosinePairs ==
  {<<a, a>> : a \in CosineVectors}
    \cup {<<a, b>> : a \in CosineVectors, b \in {ZeroVector, Vector(1, 0), Vector(-1, 2)}}
    \cup {<<ZeroVector, b>> : b \in CosineVectors}

CosineInit ==
  /\ vertexAIClient = "client"
  /\ vertexLoaded = TRUE
  /\ lastCall = NoCall
  /\ \E pair \in CosinePairs :
       Holds([Idle EXCEPT !.queryEmbedding = <<pair[1]>>, !.chunkEmbeddings = <<pair[2]>>])

\* similarity: cosineSimilarity(queryEmbedding[0], emb) for the one embedding.
ScoreVectors ==
  /\ queryEmbedding # <<>>
  /\ ranking = <<>>
  /\ ranking' = <<[index |-> 1,
                   score |-> cosineOfDoubles(queryEmbedding[1], chunkEmbeddings[1])]>>
  /\ UNCHANGED <<vertexAIClient, vertexLoaded, pc, extractedText, chunks, validChunks,
                 embeddings, chunkEmbeddings, retrievalSuccess, queryEmbedding, topChunks,
                 extractionPrompt, aiData, aiEnabled, aiResponse, attempt, lastCall, outcome>>
  /\ UNCHANGED <<loadedClient, suspended, calls, generativeModel, initializer>>

CosineSpec == CosineInit /\ [][ScoreVectors]_vars

\* --------------------------------------------------------------------------
\* C13
\* --------------------------------------------------------------------------

DoubleOne == [sign |-> 1, m |-> BigPow2(MantissaBits - 1), e |-> 1 - MantissaBits]

\* The doubles from 1 - 2^-52 to 1 + 2^-52.
NearOne(x) ==
  /\ x.sign = 1
  /\ \/ /\ x.e = 1 - MantissaBits
        /\ x.m \in {BigPow2(MantissaBits - 1), BigAdd(BigPow2(MantissaBits - 1), BigOf(1))}
     \/ /\ x.e = 0 - MantissaBits
        /\ BigCmp(BigAdd(x.m, BigOf(2)), BigPow2(MantissaBits)) >= 0

\* x^2 * normA * normB is within 2^-50 of dot^2, relatively: the three
\* roundings of the quotient and those of its square stay below that.
WithinRounding(x, sums) ==
  LET left == BigMul(BigOf(sums.normA * sums.normB), BigMul(x.m, x.m))
      right == BigMul(BigOf(sums.dot * sums.dot), BigPow2(0 - 2 * x.e))
      tolerance == BigPow2(MantissaBits - 3)
  IN /\ BigCmp(BigMul(tolerance, left), BigAdd(BigMul(tolerance, right), right)) <= 0
     /\ BigCmp(BigAdd(BigMul(tolerance, left), right), BigMul(tolerance, right)) >= 0

BothParsesFail(text) ==
  /\ ~JSONParse(text).ok
  /\ ~MatchBraces(text).found \/ ~JSONParse(MatchBraces(text).text).ok

\* One of the two parse attempts yields an object.
FieldMapDecoded(text) ==
  IF JSONParse(text).ok THEN JSONParse(text).v.t = "obj"
  ELSE /\ MatchBraces(text).found
       /\ JSONParse(MatchBraces(text).text).ok
       /\ JSONParse(MatchBraces(text).text).v.t = "obj"

ParseFailureStatus(text) ==
  {SyntaxErrorMessage, "Invalid AI response format: " \o substring(text, 0, 300)}

\* C21, first part: a returned result whose response failed both parse
\* attempts has aiEnabled = false and confidence "low".
UnparseableIsDegraded ==
  (outcome.kind = "returned" /\ aiResponse # "" /\ BothParsesFail(aiResponse)) =>
    /\ ~outcome.result.aiEnabled
    /\ outcome.result.confidence = "low"

\* C21, first part: the aiStatus of such a result is the parse failure.
UnparseableStatusIsParseFailure ==
  (outcome.kind = "returned" /\ aiResponse # "" /\ BothParsesFail(aiResponse)) =>
    outcome.result.data.aiStatus \in ParseFailureStatus(aiResponse)

\* C21, second part: a returned result has aiEnabled = true only when an
\* object was decoded from the response.
EnabledOnlyWithFieldMap ==
  (outcome.kind = "returned" /\ outcome.result.aiEnabled) => FieldMapDecoded(aiResponse)

\* C21 (as stated): when both parse attempts fail the run is reported as a
\* degraded one (aiEnabled false, confidence "low", the parse failure as
\* status), and no run is reported with aiEnabled = true unless a field map
\* was decoded from the response.
UnparseableReportedDegraded ==
  UnparseableIsDegraded /\ UnparseableStatusIsParseFailure /\ EnabledOnlyWithFieldMap

\* C21: a result with aiEnabled = true has been returned for a response that
\* is no field map.
EnabledWithoutFieldMap ==
  /\ outcome.kind = "returned"
  /\ outcome.result.aiEnabled
  /\ ~FieldMapDecoded(aiResponse)

(***************************************************************************)
(* The context of the prompt.                                              *)
(***************************************************************************)
\* The texts in their order with "\n\n---\n\n" between neighbours.
SeparatedTexts(list) ==
  Concat([i \in 1..(2 * Len(list) - 1) |->
            IF i % 2 = 1 THEN list[(i + 1) \div 2] ELSE "\n\n---\n\n"],
         1, 2 * Len(list) - 1)

PromptBuilt == extractionPrompt # NoPrompt

\* C22: the context of the prompt is the retrieved chunks, in retrieval
\* order, joined by "\n\n---\n\n" and cut to 4000 characters: it has at most
\* 4000 characters, it is a prefix of the joined text, and it is the whole
\* joined text when that has at most 4000 characters.
ContextIsCutJoin ==
  PromptBuilt =>
    LET joined == SeparatedTexts(topChunks)
        context == extractionPrompt.context
    IN /\ Len(context) <= 4000
       /\ Len(context) <= Len(joined)
       /\ context = SubSeq(joined, 1, Len(context))
       /\ Len(context) = Min(Len(joined), 4000)
       /\ extractionPrompt.sections = Len(topChunks)

\* C22, witness: a prompt has been built from five retrieved chunks, with
\* four separators in its context.
FiveChunkContext ==
  /\ PromptBuilt
  /\ Len(topChunks) = TopK
  /\ Len(extractionPrompt.context) = TopK * chunkSize + (TopK - 1) * Len(Separator)

(***************************************************************************)
(* What the result says about the retrieval.                               *)
(***************************************************************************)
\* The invocation as it would be had the first entry of its ranking the
\* score s.
WithTopScore(s) == [Run EXCEPT !.ranking = [ranking EXCEPT ![1].score = s]]

HigherScore(s) == [s EXCEPT !.num = s.num + s.den]

\* The returned ragUsed is the mode that ranked the chunks.
ModeReported ==
  outcome.kind = "returned" => (outcome.result.ragUsed <=> queryEmbedding # <<>>)

\* C23 (as stated): every returned result reports the retrieval mode that
\* was used and the top similarity or keyword score of the ranking behind
\* the retrieved chunks, so that a ranking with another top score gives
\* another result.
ModeAndTopScoreReported ==
  /\ ModeReported
  /\ outcome.kind = "returned" =>
       /\ ranking # <<>>
       /\ BuildResult(WithTopScore(HigherScore(ranking[1].score))) # outcome.result

\* C23: a result of the vector mode has been returned, and it is the result
\* of any other top similarity as well.
VectorResultWithoutScore ==
  /\ outcome.kind = "returned"
  /\ outcome.result.ragUsed
  /\ ranking[1].score # Quotient(0, 1)
  /\ outcome.result = BuildResult(Run)
  /\ outcome.result = BuildResult(WithTopScore(HigherScore(ranking[1].score)))

(***************************************************************************)
(* The order of the stages.                                                *)
(***************************************************************************)
\* The place of a suspension point in the pipeline.
StageOf(at) ==
  CASE at = "idle" -> 0
    [] at = "fetch" -> 1
    [] at = "embedChunks" -> 2
    [] at = "embedQuery" -> 3
    [] at = "generate" -> 4
    [] OTHER -> 5

\* What each suspension point finds done, and not yet done.
StageProducts ==
  /\ pc \in {"embedChunks", "embedQuery", "generate", "done"} =>
       /\ Len(extractedText) >= 100
       /\ chunks = MakeChunks(extractedText)
       /\ validChunks = FilterValid(chunks)
  /\ pc \in {"idle", "fetch"} => chunks = <<>> /\ lastCall = NoCall
  /\ pc \in {"idle", "fetch", "embedChunks"} => chunkEmbeddings = <<>>
  /\ pc = "embedChunks" => Len(embeddings) < Len(validChunks)
  /\ pc = "embedQuery" =>
       /\ Len(chunkEmbeddings) = Len(validChunks)
       /\ lastCall.phase = "embedChunks"
  /\ pc \in {"idle", "fetch", "embedChunks", "embedQuery"} =>
       /\ queryEmbedding = <<>>
       /\ ranking = <<>>
       /\ topChunks = <<>>
       /\ extractionPrompt = NoPrompt
       /\ aiResponse = ""
       /\ ~aiEnabled
  /\ pc = "generate" =>
       /\ Len(ranking) = Len(validChunks)
       /\ topChunks = TopChunksOf(ranking, validChunks)
       /\ topChunks # <<>>
       /\ extractionPrompt # NoPrompt
       /\ aiResponse = ""
       /\ ~aiEnabled
  /\ lastCall.phase = "embedQuery" => pc \in {"embedQuery", "generate", "done", "failed"}

\* A step goes forward in the pipeline, or ends the invocation, and leaves
\* the products of the earlier stages as they are.
StageStep ==
  /\ pc \in {"done", "failed"} => pc' = "idle"
  /\ pc \notin {"done", "failed"} => StageOf(pc') >= StageOf(pc)
  /\ pc \in {"embedChunks", "embedQuery", "generate"} =>
       /\ extractedText' = extractedText
       /\ chunks' = chunks
       /\ validChunks' = validChunks
  /\ pc \in {"embedQuery", "generate"} => chunkEmbeddings' = chunkEmbeddings
  /\ pc = "generate" =>
       /\ queryEmbedding' = queryEmbedding
       /\ ranking' = ranking
       /\ topChunks' = topChunks
       /\ extractionPrompt' = extractionPrompt

\* C24: the stages of an invocation run in the order normalize, chunk, embed
\* chunks, retrieve, build prompt, generate, parse, validate: an embedding
\* call is in flight only after the chunks are made, the query embedding
\* only after every chunk has its embedding, the generation call only after
\* the top chunks and the prompt are there, and no step goes back to an
\* earlier stage or changes what an earlier stage has produced.
StagesInOrder == []StageProducts /\ [][StageStep]_vars

\* C24, witness: the generation call is in flight behind the vector
\* retrieval of a document of several chunks.
GenerationBehindVectorRetrieval ==
  /\ pc = "generate"
  /\ queryEmbedding # <<>>
  /\ Len(chunkEmbeddings) > 1
  /\ lastCall.phase = "embedQuery"

(***************************************************************************)
(* Two invocations of processPitchDeck in one process.  The handler runs   *)
(* from one await to the next without interruption, so an interleaving is  *)
(* a sequence of steps of the invocation that runs, with a change of the   *)
(* running invocation between steps.  The locals are each invocation's     *)
(* own; vertexAIClient and vertexLoaded are the module's.                  *)
(***************************************************************************)
\* The other invocation's continuation runs next.
Switch ==
  /\ \E r \in {suspended.run} : Becomes(r)
  /\ lastCall' = suspended.lastCall
  /\ loadedClient' = suspended.loadedClient
  /\ suspended' = [run |-> Run, lastCall |-> lastCall, loadedClient |-> loadedClient]
  /\ UNCHANGED <<vertexAIClient, vertexLoaded, calls, generativeModel, initializer>>

ConcurrentNext ==
  \/ Step({RawOne}, {[kind |-> "text", text |-> FullResponse]},
          {"14 UNAVAILABLE: deadline exceeded"})
  \/ Switch

ConcurrentSpec == Init /\ [][ConcurrentNext]_vars

\* The module state is written by the first loadVertexAI that succeeds and
\* by none after it; a client that is loaded is not null.
LoadedOnce ==
  /\ vertexLoaded => vertexAIClient # "null"
  /\ ~vertexLoaded => vertexAIClient = "null"

LoadedStep ==
  vertexLoaded => (vertexLoaded' /\ vertexAIClient' = vertexAIClient)

LoadedClientIsStable == []LoadedOnce /\ [][LoadedStep]_vars

\* The result of an invocation whose own loadVertexAI left no client, when
\* it depends on nothing but its input: no capability call, keyword
\* retrieval, and the result of the missing client.
WithoutClient ==
  /\ lastCall = NoCall
  /\ chunkEmbeddings = <<>>
  /\ ~outcome.result.ragUsed
  /\ ~outcome.result.aiEnabled
  /\ outcome.result.data.aiStatus = "Vertex AI not configured"

\* C25 (as stated): whatever the other invocation does, an invocation's
\* embeddings, retrieved chunks and record depend on its own input and its
\* own capability responses only: the client it reads at steps 4, 5 and 7 is
\* the one its own loadVertexAI left, and without one its result is the
\* result of the missing client; a loaded client is never written again and
\* is not null.
InvocationsIsolated ==
  /\ LoadedOnce
  /\ pc \in {"fetch", "embedChunks", "embedQuery", "generate"} => vertexAIClient = loadedClient
  /\ (outcome.kind = "returned" /\ loadedClient = "null") => WithoutClient

\* C25: an invocation whose own loadVertexAI left no client has returned an
\* AI result made with the client that the other invocation loaded
\* meanwhile, the other invocation still being under way.
ResultWithTheOthersClient ==
  /\ outcome.kind = "returned"
  /\ loadedClient = "null"
  /\ outcome.result.aiEnabled
  /\ outcome.result.ragUsed
  /\ suspended.loadedClient = "client"
  /\ suspended.run.pc \in {"fetch", "embedChunks", "embedQuery", "generate"}

(***************************************************************************)
(* Termination.  The requests of an invocation are counted, and every      *)
(* request that is waited for gets its answer or its failure.              *)
(***************************************************************************)
CountInit ==
  /\ vertexAIClient = "null"
  /\ vertexLoaded = FALSE
  /\ lastCall = NoCall
  /\ loadedClient = "null"
  /\ suspended = NoSuspended
  /\ generativeModel = "null"
  /\ initializer = NoInitializer
  /\ calls = [NoCalls EXCEPT !.counted = TRUE]
  /\ pc = Idle.pc
  /\ extractedText = Idle.extractedText
  /\ chunks = Idle.chunks
  /\ validChunks = Idle.validChunks
  /\ embeddings = Idle.embeddings
  /\ chunkEmbeddings = Idle.chunkEmbeddings
  /\ retrievalSuccess = Idle.retrievalSuccess
  /\ queryEmbedding = Idle.queryEmbedding
  /\ ranking = Idle.ranking
  /\ topChunks = Idle.topChunks
  /\ extractionPrompt = Idle.extractionPrompt
  /\ aiData = Idle.aiData
  /\ aiEnabled = Idle.aiEnabled
  /\ aiResponse = Idle.aiResponse
  /\ attempt = Idle.attempt
  /\ outcome = Idle.outcome

CountNext ==
  Step(Documents \ {RawLong},
       {[kind |-> "text", text |-> FullResponse], [kind |-> "noCandidates", text |-> ""]},
       {"14 UNAVAILABLE: deadline exceeded"})

\* The call the handler waits for returns or fails.
CallEnds ==
  \/ FetchFails
  \/ \E raw \in Documents \ {RawLong} : FetchSucceeds(raw)
  \/ EmbeddingAttemptFails
  \/ \E response \in EmbeddingResponses : EmbeddingResponds(response)
  \/ GenerationAttemptFails("14 UNAVAILABLE: deadline exceeded")
  \/ GenerationResponds([kind |-> "text", text |-> FullResponse])
  \/ GenerationResponds([kind |-> "noCandidates", text |-> ""])

\* The handler waits at an await for a call to end.
CallPending == pc \in {"fetch", "embedChunks", "embedQuery", "generate"}

\* Every call returns or fails: weak fairness of CallEnds, WF_vars(CallEnds),
\* with ENABLED <<CallEnds>>_vars written as the predicate CallPending, since
\* a call that is waited for can always fail and every end of a call moves
\* the handler on.
EveryCallEnds == []<>(~CallPending) \/ []<><<CallEnds>>_vars

TerminationSpec == CountInit /\ [][CountNext]_vars /\ EveryCallEnds

\* An invocation that has begun ends with a result or an error.
Terminates == (pc = "fetch") ~> (outcome.kind \in {"returned", "thrown"})

CallsBounded ==
  /\ calls.embedding <= (Len(validChunks) + 1) * (retries + 1)
  /\ calls.generation <= retries + 1

\* C26 (as the code has it): every invocation ends, with a returned result
\* or a thrown error, provided each call returns or fails; it sends at most
\* (number of valid chunks + 1) * 4 embedding requests and at most 4
\* generation requests, 4 being the first try and the 3 retries of a call.
TerminatesWithBoundedCalls == []CallsBounded /\ Terminates

\* C26, witness: a result has been returned after every call of a document
\* of one chunk took all its attempts.
EveryAttemptUsed ==
  /\ outcome.kind = "returned"
  /\ Len(validChunks) = 1
  /\ calls.embedding = (Len(validChunks) + 1) * (retries + 1)
  /\ calls.generation = retries + 1

CallsWithinRetryBudget ==
  /\ calls.embedding <= (Len(validChunks) + 1) * retries
  /\ calls.generation <= retries

\* C26 (as stated): every invocation ends, and it sends at most
\* (number of valid chunks + 1) * 3 embedding requests and at most 3
\* generation requests, 3 being the retry budget.
TerminatesWithinRetryBudget == []CallsWithinRetryBudget /\ Terminates

(***************************************************************************)
(* The failure of step 3.                                                  *)
(***************************************************************************)
NoValidChunks == Thrown("No valid text chunks for embedding")

\* C27: the failure "No valid text chunks for embedding" is never the
\* outcome: a normalised text of at least MinTextLength characters begins
\* with a character that is not white space, so once it is cut its first
\* window passes the filter and the list of valid chunks is not empty.
NoValidChunksUnreachable ==
  /\ outcome # NoValidChunks
  /\ chunks # <<>> =>
       /\ Len(extractedText) >= MinTextLength
       /\ ~IsSpace(CharAt(extractedText, 1))
       /\ validChunks # <<>>
       /\ validChunks[1] = chunks[1]

\* C27, witness: a text of exactly MinTextLength characters has been cut
\* and its one window kept.
MinimumTextHasOneChunk ==
  /\ Len(extractedText) = MinTextLength
  /\ Len(chunks) = 1
  /\ validChunks = chunks

(***************************************************************************)
(* Vector retrieval with a degraded query embedding.                       *)
(***************************************************************************)
DegradedQuery == RetrievalDone /\ queryEmbedding = <<ZeroVector>>

\* C28: in vector mode with the zero vector for the query embedding every
\* chunk has similarity 0 and the retrieved chunks are the first min(5, n)
\* valid chunks in document order; the result still has ragUsed = true and,
\* when the response was parsed, confidence "high" and the source tag
\* "with RAG".
DegradedQueryKeepsDocumentOrder ==
  DegradedQuery =>
    /\ retrievalSuccess
    /\ Len(ranking) = Len(validChunks)
    /\ \A k \in 1..Len(ranking) : ranking[k] = [index |-> k, score |-> Quotient(0, 1)]
    /\ topChunks = SubSeq(validChunks, 1, Min(TopK, Len(validChunks)))
    /\ outcome.kind = "returned" =>
         /\ outcome.result.ragUsed
         /\ outcome.result.data.ragUsed
         /\ outcome.result.retrievedChunks = Min(TopK, Len(validChunks))
         /\ outcome.result.aiEnabled =>
              /\ outcome.result.confidence = "high"
              /\ outcome.result.source = "vertex-ai-gemini-1.5-flash with RAG"

\* C28, witness: a result with confidence "high" has been returned for a
\* document of more than five chunks and a degraded query embedding, where
\* the keyword scores would have retrieved other chunks.
HighConfidenceOnDegradedQuery ==
  /\ DegradedQuery
  /\ outcome.kind = "returned"
  /\ outcome.result.confidence = "high"
  /\ Len(validChunks) > TopK
  /\ topChunks # TopChunksOf(KeywordRanking(validChunks), validChunks)

(***************************************************************************)
(* The provenance fields of the result.                                    *)
(***************************************************************************)
CompletionMessage == "RAG AI analysis complete"

ProvenanceAgrees(result) ==
  LET fallback == ~result.aiEnabled
      bySource == result.source = "pdf-fallback"
      byConfidence == result.confidence = "low"
      bySteps == result.nextSteps # <<>>
      byTokens == result.aiTokens = 0 /\ result.data.aiStatus # CompletionMessage
  IN /\ fallback <=> bySource
     /\ bySource <=> byConfidence
     /\ byConfidence <=> bySteps
     /\ bySteps <=> byTokens
     /\ result.data.ragUsed = result.ragUsed
     /\ result.aiEnabled =>
          /\ result.source = "vertex-ai-gemini-1.5-flash with RAG" <=> result.ragUsed
          /\ result.source = "vertex-ai-gemini-1.5-flash with keyword fallback"
               <=> ~result.ragUsed

\* C29: in every returned result aiEnabled = false, source = "pdf-fallback",
\* confidence = "low", a non-empty nextSteps, and aiTokens = 0 with an
\* aiStatus other than the completion message all hold or all fail; with
\* aiEnabled = true the source tag says "with RAG" exactly when ragUsed is
\* true and "with keyword fallback" exactly when it is false.
ProvenanceConsistent == outcome.kind = "returned" => ProvenanceAgrees(outcome.result)

\* C29, witness: a fallback result has been returned after a vector
\* retrieval.
FallbackResultAfterVectorRetrieval ==
  /\ outcome.kind = "returned"
  /\ ~outcome.result.aiEnabled
  /\ outcome.result.ragUsed
  /\ outcome.result.source = "pdf-fallback"
  /\ outcome.result.aiTokens = 0

(***************************************************************************)
(* index.ts, initializeVertexAI: the model is looked for among five        *)
(* versions, each tried with a test request, and the first one that works  *)
(* is kept for the later calls.  A model is named by its version.          *)
(***************************************************************************)
modelVersions ==
  <<"gemini-1.5-flash", "gemini-1.5-pro", "gemini-1.0-pro-vision", "text-bison@001",
    "gemini-pro">>

MaxInitCalls == 3

\* How a test request ends: it is rejected, it resolves with a response whose
\* text() gives a string, or it resolves with a response whose text() throws
\* or is missing.
ProbeOutcomes == {"rejected", "text", "unreadable"}

AllVersionsFailed ==
  "Vertex AI initialization failed: "
    \o "All Vertex AI model versions failed - check API access and permissions"

ProbeInit ==
  /\ vertexAIClient = "null"
  /\ vertexLoaded = FALSE
  /\ lastCall = NoCall
  /\ Holds(Idle)

HandlerIdle ==
  UNCHANGED <<vertexAIClient, vertexLoaded, pc, extractedText, chunks, validChunks,
              embeddings, chunkEmbeddings, retrievalSuccess, queryEmbedding, ranking,
              topChunks, extractionPrompt, aiData, aiEnabled, aiResponse, attempt,
              lastCall, outcome, loadedClient, suspended, calls>>

\* initializeVertexAI() up to its first await: the cached model, or the test
\* request for the first version.
InitializeVertexAI ==
  /\ initializer.pc \in {"idle", "returned", "thrown"}
  /\ initializer.call < MaxInitCalls
  /\ initializer' =
       IF generativeModel # "null"
       THEN [pc |-> "returned", call |-> initializer.call + 1, version |-> 0,
             probed |-> <<>>, result |-> generativeModel]
       ELSE [pc |-> "probe", call |-> initializer.call + 1, version |-> 1,
             probed |-> <<>>, result |-> "null"]
  /\ UNCHANGED generativeModel
  /\ HandlerIdle

\* The test request ends.  The success log reads testResult.response.text()
\* inside the try, so a response whose text cannot be read lands in the
\* catch of the version like a rejected request.
ProbeEnds(ended) ==
  /\ initializer.pc = "probe"
  /\ LET probed == Append(initializer.probed, ended) IN
     IF ended = "text"
     THEN /\ generativeModel' = modelVersions[initializer.version]
          /\ initializer' = [initializer EXCEPT !.pc = "returned", !.probed = probed,
                                                !.result = modelVersions[initializer.version]]
     ELSE /\ UNCHANGED generativeModel
          /\ initializer' =
               IF initializer.version < Len(modelVersions)
               THEN [initializer EXCEPT !.version = @ + 1, !.probed = probed]
               ELSE [initializer EXCEPT !.pc = "thrown", !.probed = probed,
                                        !.result = AllVersionsFailed]
  /\ HandlerIdle

ProbeNext ==
  \/ InitializeVertexAI
  \/ \E ended \in ProbeOutcomes : ProbeEnds(ended)

ProbeSpec == ProbeInit /\ [][ProbeNext]_vars

\* The test request of a version succeeded: it resolved with a response.
Succeeded(ended) == ended # "rejected"

FirstSucceeded(probed) ==
  CHOOSE i \in 1..Len(probed) : Succeeded(probed[i]) /\ \A j \in 1..(i - 1) : ~Succeeded(probed[j])

\* What holds of initializeVertexAI: the versions are tried in the order of
\* the list; a call with a cached model returns it without a test request;
\* a call returns the version it has just cached, which is the one whose
\* response text was read; a call that throws has tried all five and leaves
\* the cache empty.
ProbesInOrder ==
  /\ initializer.pc = "probe" =>
       /\ generativeModel = "null"
       /\ initializer.version = Len(initializer.probed) + 1
       /\ \A i \in 1..Len(initializer.probed) : initializer.probed[i] # "text"
  /\ initializer.pc = "returned" =>
       /\ initializer.result = generativeModel
       /\ initializer.probed # <<>> =>
            /\ initializer.probed[Len(initializer.probed)] = "text"
            /\ initializer.result = modelVersions[Len(initializer.probed)]
  /\ initializer.pc = "thrown" =>
       /\ generativeModel = "null"
       /\ Len(initializer.probed) = Len(modelVersions)
       /\ \A i \in 1..Len(initializer.probed) : initializer.probed[i] # "text"

\* Once cached, the model stays, and a call that finds it sends no request.
CachedStep ==
  generativeModel # "null" =>
    /\ generativeModel' = generativeModel
    /\ initializer'.pc # "probe"
    /\ initializer'.call # initializer.call =>
         initializer'.result = generativeModel /\ initializer'.probed = <<>>

CachedModelKept == [][CachedStep]_vars

\* C30: initializeVertexAI tries the versions in the order of the list,
\* caches and returns the first version whose test request succeeded, and
\* throws only when the test requests of all five versions failed, leaving
\* the cache empty; with a model cached a call returns it and sends no
\* request.
FirstSucceedingVersionCached ==
  /\ ProbesInOrder
  /\ (\E i \in 1..Len(initializer.probed) : Succeeded(initializer.probed[i])) =>
       /\ initializer.pc = "returned"
       /\ initializer.result = modelVersions[FirstSucceeded(initializer.probed)]
       /\ generativeModel = initializer.result
  /\ initializer.pc = "thrown" =>
       \A i \in 1..Len(initializer.probed) : ~Succeeded(initializer.probed[i])

\* C30: the call has thrown although the test request of every version
\* resolved with a response.
ThrownAlthoughRequestsSucceeded ==
  /\ initializer.pc = "thrown"
  /\ generativeModel = "null"
  /\ \A i \in 1..Len(modelVersions) : initializer.probed[i] = "unreadable"
====
